---- MODULE Spec2Model ----
(***************************************************************************)
(* A model of evredis: the Writer and Reader storage actors over an evmap  *)
(* (src/storage/writer.rs, src/storage/reader.rs), the Connection actor    *)
(* that dispatches decoded commands to them (src/server/connection.rs),    *)
(* and the RESP2 codec (src/codecs/resp2.rs, src/codecs.rs).               *)
(***************************************************************************)
EXTENDS Integers, Sequences, FiniteSets, TLC

VARIABLES
    now,            \* clock::now(), in ticks
    operation_id,   \* Writer.operation_id
    front,          \* the evmap's published map, what every ReadHandle sees
    oplog,          \* operations pending on the WriteHandle since the last refresh
    timers,         \* closures scheduled with ctx.run_later on the Writer
    published,      \* operation_id of the Writer at its last refresh
    lastTimer,      \* the last closure of Writer::expire that ran, and whether it removed
    lastFlush,      \* operation id of the last flush the Writer handled, 0 before any
    wbox,           \* the Writer's mailbox
    rbox,           \* the Reader's mailbox
    rstore,         \* Reader.store is Some(handle)
    rwait,          \* the Reader is inside the ctx.wait of started()
    tx,             \* Connection.tx is Some(sink)
    fut,            \* the future a Connection waits on (ctx.wait)
    ndec,           \* commands each Connection's stream has yielded so far
    sink,           \* per Connection, the commands whose response was written
    ackId,          \* per Connection, operation id of the last write answered
    crashed,        \* the worker thread of the Reader and the Connections panicked
    input,          \* codec: bytes not yet received
    buf,            \* codec: the BytesMut the decoder works on
    out,            \* codec: the commands decoded so far
    cres,           \* codec: result of the last call of decode
    frames,         \* codec: the commands whose frames make up the input
    suffix          \* codec: the partial frame that ends the input

sysvars == <<now, operation_id, front, oplog, timers, published, lastTimer, lastFlush,
             wbox, rbox, rstore, rwait, tx, fut, ndec, sink, ackId, crashed>>
codecvars == <<input, buf, out, cres, frames, suffix>>
vars == <<sysvars, codecvars>>

---------------------------------------------------------------------------
(* Bounds of the model *)

\* commands the connections decode, all together
MaxCmds == 3
\* mutations the Writer handles
MaxOpId == 3
\* the clock stops here once no timer is pending
MaxTime == 2
\* messages the Writer's mailbox holds
MailboxCap == 2

Conns == {"c1", "c2"}
Keys == {"k1", "k2"}
Datas == {"v1", "v2"}
Durations == {1}

---------------------------------------------------------------------------
(* Option<T>: None is the empty sequence, Some(x) the one-element sequence *)

None == <<>>

Some(x) == <<x>>

IsSome(o) == o # <<>>

Unwrap(o) == o[1]

---------------------------------------------------------------------------
(* protocol.rs: commands and responses *)

KeyLists == {<<k>> : k \in Keys} \cup {<<k, l>> : k, l \in Keys}

Conditionals == {"Always", "IfExists", "IfNotExists"}

Synchronicities == {"Sync", "Async"}

SetCmd(k, v, ttl, cond) == [op |-> "Set", key |-> k, value |-> v, ttl |-> ttl, cond |-> cond]

DelCmd(ks) == [op |-> "Del", keys |-> ks]

ExpireCmd(k, d) == [op |-> "Expire", key |-> k, ttl |-> d]

PersistCmd(k) == [op |-> "Persist", key |-> k]

FlushAllCmd(s) == [op |-> "FlushAll", sync |-> s]

FlushDBCmd(s) == [op |-> "FlushDB", sync |-> s]

PingCmd(m) == [op |-> "Ping", msg |-> m]

GetCmd(k) == [op |-> "Get", key |-> k]

ExistsCmd(ks) == [op |-> "Exists", keys |-> ks]

WriteCommands ==
    {SetCmd(k, v, t, c) : k \in Keys, v \in Datas,
                          t \in {None} \cup {Some(d) : d \in Durations}, c \in Conditionals}
    \cup {DelCmd(ks) : ks \in KeyLists}
    \cup {ExpireCmd(k, d) : k \in Keys, d \in Durations}
    \cup {PersistCmd(k) : k \in Keys}
    \cup {FlushAllCmd(s) : s \in Synchronicities}
    \cup {FlushDBCmd(s) : s \in Synchronicities}

ReadCommands ==
    {PingCmd(m) : m \in {None} \cup {Some(d) : d \in Datas}}
    \cup {GetCmd(k) : k \in Keys}
    \cup {ExistsCmd(ks) : ks \in KeyLists}

Commands == WriteCommands \cup ReadCommands

\* a classification without asynchronous commands
is_asyncNever(cmd) == FALSE

\* Command::is_async
is_async(cmd) ==
    /\ cmd.op \in {"FlushAll", "FlushDB"}
    /\ cmd.sync = "Async"

writes(cmd) == cmd.op \notin {"Ping", "Get", "Exists"}

reads(cmd) == ~writes(cmd)

\* a conditional that lets every write through
whenAlways(cond, exists) == TRUE

\* Conditional::when: whether the closure runs
when(cond, exists) ==
    CASE cond = "Always" -> TRUE
      [] cond = "IfExists" /\ exists -> TRUE
      [] cond = "IfNotExists" /\ ~exists -> TRUE
      [] OTHER -> FALSE

ROk == [t |-> "Ok"]

RNil == [t |-> "Nil"]

RPong == [t |-> "Pong"]

RInteger(n) == [t |-> "Integer", n |-> n]

RBulk(d) == [t |-> "Bulk", data |-> d]

RError(e) == [t |-> "Error", e |-> e]

\* Result<Response, E>
Ok(r) == [ok |-> TRUE, resp |-> r]

Err(e) == [ok |-> FALSE, err |-> e]

---------------------------------------------------------------------------
(* storage.rs: values and items; the evmap behind the handles *)

StringValue(d) == [variant |-> "String", data |-> d]

\* Value::List, Value::Set, Value::OrderedSet, Value::Hash
OtherValue(variant) == [variant |-> variant]

OtherVariants == {"List", "Set", "OrderedSet", "Hash"}

\* an item whose metadata does not record the operation that wrote it
ItemUncounted(value, expiration, id) ==
    [value |-> value, meta |-> [expiration |-> expiration, operation_id |-> 0]]

\* Item { value, meta: Metadata { expiration, operation_id } }
Item(value, expiration, id) ==
    [value |-> value, meta |-> [expiration |-> expiration, operation_id |-> id]]

EmptyMap == [k \in Keys |-> None]

\* ReadHandle::contains_key, also behind the WriteHandle: the published map
contains_key(map, k) == IsSome(map[k])

\* one pending operation of the WriteHandle applied to a map
ApplyOp(map, o) ==
    CASE o.op = "Update" -> [map EXCEPT ![o.key] = Some(o.item)]
      [] o.op = "Empty" -> [map EXCEPT ![o.key] = None]
      [] o.op = "Purge" -> EmptyMap

RECURSIVE ApplyOps(_, _)
ApplyOps(map, ops) ==
    IF ops = <<>> THEN map ELSE ApplyOps(ApplyOp(map, Head(ops)), Tail(ops))

\* WriteHandle::refresh: the pending operations become visible to the readers
Refresh(map, ops) == ApplyOps(map, ops)

Update(k, item) == [op |-> "Update", key |-> k, item |-> item]

Empty(k) == [op |-> "Empty", key |-> k]

Purge == [op |-> "Purge"]

---------------------------------------------------------------------------
(* storage/writer.rs: the Writer *)

get_item(map, k) == map[k]

get_metadata(map, k) == IF IsSome(map[k]) THEN Some(Unwrap(map[k]).meta) ELSE None

\* a Writer that forgets to count its operations
OperationIdKept(id) == id

\* self.operation_id += 1
NextOperationId(id) == id + 1

\* a closure that removes its key whatever write came after it
ExpireAnyOperation(meta, id) == IsSome(meta)

\* the closure of Writer::expire compares the stored id with the one it captured
ExpireMatches(meta, id) ==
    IF IsSome(meta) THEN Unwrap(meta).operation_id = id ELSE FALSE

Timer(k, id, due) == [key |-> k, operation_id |-> id, due |-> due]

\* a Writer that never schedules the closure
expireNever(k, id, t, duration) == {}

\* Writer::expire: ctx.run_later(duration, closure over key and self.operation_id)
expire(k, id, t, duration) == {Timer(k, id, t + duration)}

\* what one pass of a handler leaves behind: the operations put on the
\* WriteHandle, the closures scheduled, the result, and whether it refreshed
Effect(ops, tms, res, refreshed) ==
    [ops |-> ops, timers |-> tms, res |-> res, refresh |-> refreshed]

\* a SET that answers before the map is refreshed
HandleSetUnrefreshed(cmd, id, map, t) ==
    IF when(cmd.cond, contains_key(map, cmd.key))
    THEN LET expires_at == IF IsSome(cmd.ttl) THEN Some(t + Unwrap(cmd.ttl)) ELSE None
             item == Item(StringValue(cmd.value), expires_at, id)
         IN Effect(<<Update(cmd.key, item)>>,
                   IF IsSome(cmd.ttl) THEN expire(cmd.key, id, t, Unwrap(cmd.ttl)) ELSE {},
                   Ok(ROk), FALSE)
    ELSE Effect(<<>>, {}, Ok(RNil), FALSE)

HandleSet(cmd, id, map, t) ==
    IF when(cmd.cond, contains_key(map, cmd.key))
    THEN LET expires_at == IF IsSome(cmd.ttl) THEN Some(t + Unwrap(cmd.ttl)) ELSE None
             item == Item(StringValue(cmd.value), expires_at, id)
         IN Effect(<<Update(cmd.key, item)>>,
                   IF IsSome(cmd.ttl) THEN expire(cmd.key, id, t, Unwrap(cmd.ttl)) ELSE {},
                   Ok(ROk), TRUE)
    ELSE Effect(<<>>, {}, Ok(RNil), TRUE)

\* the loop of DEL: contains_key reads the published map, empty is deferred
RECURSIVE DelLoop(_, _)
DelLoop(keys, map) ==
    IF keys = <<>> THEN [updated |-> 0, ops |-> <<>>]
    ELSE LET rest == DelLoop(Tail(keys), map)
         IN IF contains_key(map, Head(keys))
            THEN [updated |-> rest.updated + 1, ops |-> <<Empty(Head(keys))>> \o rest.ops]
            ELSE rest

\* a DEL that answers before the map is refreshed
HandleDelUnrefreshed(cmd, id, map, t) ==
    LET r == DelLoop(cmd.keys, map)
    IN Effect(r.ops, {}, Ok(RInteger(r.updated)), FALSE)

HandleDel(cmd, id, map, t) ==
    LET r == DelLoop(cmd.keys, map)
    IN Effect(r.ops, {}, Ok(RInteger(r.updated)), TRUE)

\* an EXPIRE that leaves the metadata's operation id as it was
ExpireItemSameId(item, id, expires_at) ==
    Item(item.value, Some(expires_at), item.meta.operation_id)

ExpireItem(item, id, expires_at) == Item(item.value, Some(expires_at), id)

\* an EXPIRE that stores the expiration and schedules no closure
HandleExpireUnscheduled(cmd, id, map, t) ==
    LET found == get_item(map, cmd.key)
    IN IF IsSome(found)
       THEN Effect(<<Update(cmd.key, ExpireItem(Unwrap(found), id, t + cmd.ttl))>>,
                   {}, Ok(RInteger(1)), TRUE)
       ELSE Effect(<<>>, {}, Ok(RInteger(0)), TRUE)

HandleExpire(cmd, id, map, t) ==
    LET found == get_item(map, cmd.key)
    IN IF IsSome(found)
       THEN Effect(<<Update(cmd.key, ExpireItem(Unwrap(found), id, t + cmd.ttl))>>,
                   expire(cmd.key, id, t, cmd.ttl), Ok(RInteger(1)), TRUE)
       ELSE Effect(<<>>, {}, Ok(RInteger(0)), TRUE)

\* a PERSIST that leaves the metadata's operation id as it was
PersistItemSameId(item, id) == Item(item.value, None, item.meta.operation_id)

PersistItem(item, id) == Item(item.value, None, id)

\* a PERSIST that renews the item and keeps its expiration
HandlePersistKeepsExpiration(cmd, id, map, t) ==
    LET found == get_item(map, cmd.key)
    IN IF IsSome(found)
       THEN Effect(<<Update(cmd.key, Item(Unwrap(found).value,
                                          Unwrap(found).meta.expiration, id))>>, {},
                   Ok(RInteger(1)), TRUE)
       ELSE Effect(<<>>, {}, Ok(RInteger(0)), TRUE)

HandlePersist(cmd, id, map, t) ==
    LET found == get_item(map, cmd.key)
    IN IF IsSome(found)
       THEN Effect(<<Update(cmd.key, PersistItem(Unwrap(found), id))>>, {},
                   Ok(RInteger(1)), TRUE)
       ELSE Effect(<<>>, {}, Ok(RInteger(0)), TRUE)

\* a flush that answers Ok and purges nothing
HandleFlushKeeps(cmd, id, map, t) == Effect(<<>>, {}, Ok(ROk), TRUE)

\* self.writer.purge()
HandleFlush(cmd, id, map, t) == Effect(<<Purge>>, {}, Ok(ROk), TRUE)

\* Handler<Operation> for Writer, after the increment of operation_id
WriterHandle(cmd, id, map, t) ==
    CASE cmd.op = "Set" -> HandleSet(cmd, id, map, t)
      [] cmd.op = "Del" -> HandleDel(cmd, id, map, t)
      [] cmd.op = "Expire" -> HandleExpire(cmd, id, map, t)
      [] cmd.op = "Persist" -> HandlePersist(cmd, id, map, t)
      [] cmd.op \in {"FlushAll", "FlushDB"} -> HandleFlush(cmd, id, map, t)
      [] OTHER -> Effect(<<>>, {}, Err("NoReadAccess"), FALSE)

\* the closure scheduled by Writer::expire, run on the Writer: the operations it
\* puts on the WriteHandle and whether it refreshed
ExpireCallback(map, k, id) ==
    IF ExpireMatches(get_metadata(map, k), id)
    THEN Effect(<<Empty(k)>>, {}, Ok(ROk), TRUE)
    ELSE Effect(<<>>, {}, Ok(ROk), FALSE)

---------------------------------------------------------------------------
(* storage/reader.rs: the Reader *)

\* a GET that takes a value of another kind for no value at all
GetResponseNil(values) ==
    IF values[1].value.variant = "String"
    THEN RBulk(values[1].value.data)
    ELSE RNil

\* the closure GET passes to get_and
GetResponse(values) ==
    IF values[1].value.variant = "String"
    THEN RBulk(values[1].value.data)
    ELSE RError("WrongType")

\* Handler<Operation> for Reader, with a read handle; "panic" is unreachable!()
ReaderHandle(cmd, map) ==
    CASE cmd.op = "Ping" /\ ~IsSome(cmd.msg) -> Ok(RPong)
      [] cmd.op = "Ping" /\ IsSome(cmd.msg) -> Ok(RBulk(Unwrap(cmd.msg)))
      [] cmd.op = "Get" ->
            Ok(IF IsSome(map[cmd.key]) THEN GetResponse(map[cmd.key]) ELSE RNil)
      [] writes(cmd) -> Err("NoWriteAccess")
      [] OTHER -> Err("panic")

---------------------------------------------------------------------------
(* server/connection.rs: the Connection, and the mailboxes of the actors *)

Subscribe == [kind |-> "Subscribe"]

Operation(from, cmd) == [kind |-> "Operation", from |-> from, cmd |-> cmd]

NoFuture == [stage |-> "none"]

Request(idx, cmd, floor) == [stage |-> "request", idx |-> idx, cmd |-> cmd, floor |-> floor]

Pending(idx, cmd, floor) == [stage |-> "pending", idx |-> idx, cmd |-> cmd, floor |-> floor]

\* res: the Result the response future resolved to; id: the operation id or the
\* published id the handler worked at (0 when no handler ran)
Resolved(idx, cmd, floor, res, id) ==
    [stage |-> "resolved", idx |-> idx, cmd |-> cmd, floor |-> floor, res |-> res, id |-> id]

\* a connection that keeps polling its stream while a response is pending
waitingNever(c) == FALSE

\* ctx.waiting(): the stream is not polled while the future of ctx.wait is pending
waiting(c) == fut[c].stage # "none"

\* a Connection that hands every command to the Reader
DispatchToReader(cmd) ==
    [to |-> "reader", how |-> IF is_async(cmd) THEN "try_send" ELSE "send"]

\* the arm of the match in Connection::handle
Dispatch(cmd) ==
    CASE is_async(cmd) /\ writes(cmd) -> [to |-> "writer", how |-> "try_send"]
      [] is_async(cmd) -> [to |-> "reader", how |-> "try_send"]
      [] writes(cmd) -> [to |-> "writer", how |-> "send"]
      [] OTHER -> [to |-> "reader", how |-> "send"]

\* a mailbox without a capacity
FullNever(box) == FALSE

\* the mailbox holds as many messages as its capacity allows
Full(box) == Len(box) >= MailboxCap

Max(S) == CHOOSE x \in S : \A y \in S : y <= x

\* the highest operation id a client has been answered for
Acked == Max({ackId[c] : c \in Conns})

\* commands the streams have yielded
Decoded == ndec["c1"] + ndec["c2"]

\* write operations sent or about to be sent to the Writer
WritesIssued ==
    operation_id
    + Cardinality({i \in 1..Len(wbox) : wbox[i].kind = "Operation"})
    + Cardinality({c \in Conns : fut[c].stage = "request" /\ writes(fut[c].cmd)})

---------------------------------------------------------------------------
(* The actors' steps *)

\* StreamHandler::handle of Connection: the stream yields cmd
ConnectionHandle(c, cmd) ==
    /\ ~crashed
    /\ ~waiting(c)
    /\ Decoded < MaxCmds
    /\ writes(cmd) => WritesIssued < MaxOpId
    /\ LET d == Dispatch(cmd)
           idx == ndec[c] + 1
           full == Full(IF d.to = "writer" THEN wbox ELSE rbox)
           \* try_send runs inside handle; send only builds the Request future
           sent == d.how = "try_send" /\ ~full
           f == CASE d.how = "try_send" /\ full -> Resolved(idx, cmd, Acked, Err("Full"), 0)
                  [] d.how = "try_send" -> Resolved(idx, cmd, Acked, Ok(ROk), 0)
                  [] OTHER -> Request(idx, cmd, Acked)
       IN /\ ndec' = [ndec EXCEPT ![c] = idx]
          /\ wbox' = IF sent /\ d.to = "writer"
                     THEN Append(wbox, Operation("none", cmd)) ELSE wbox
          /\ rbox' = IF sent /\ d.to = "reader"
                     THEN Append(rbox, Operation("none", cmd)) ELSE rbox
          \* self.tx.take().expect("Sink not available"), then ctx.wait
          /\ IF tx[c]
             THEN /\ tx' = [tx EXCEPT ![c] = FALSE]
                  /\ fut' = [fut EXCEPT ![c] = f]
                  /\ crashed' = crashed
             ELSE /\ crashed' = TRUE
                  /\ UNCHANGED <<tx, fut>>
    /\ UNCHANGED <<now, operation_id, front, oplog, timers, published, lastTimer,
                   lastFlush, rstore, rwait, sink, ackId, codecvars>>

\* the Request future of Addr::send is polled: the message enters the mailbox
\* once there is room for it
RequestSend(c) ==
    /\ ~crashed
    /\ fut[c].stage = "request"
    /\ LET f == fut[c]
           to == Dispatch(f.cmd).to
       IN /\ ~Full(IF to = "writer" THEN wbox ELSE rbox)
          /\ wbox' = IF to = "writer" THEN Append(wbox, Operation(c, f.cmd)) ELSE wbox
          /\ rbox' = IF to = "reader" THEN Append(rbox, Operation(c, f.cmd)) ELSE rbox
          /\ fut' = [fut EXCEPT ![c] = Pending(f.idx, f.cmd, f.floor)]
    /\ UNCHANGED <<now, operation_id, front, oplog, timers, published, lastTimer,
                   lastFlush, rstore, rwait, tx, ndec, sink, ackId, crashed,
                   codecvars>>

\* the future of a request resolves with the handler's result
Resolve(futs, from, res, id) ==
    IF from \in Conns /\ futs[from].stage = "pending"
    THEN [futs EXCEPT ![from] = Resolved(@.idx, @.cmd, @.floor, res, id)]
    ELSE futs

\* Handler<Subscribe> for Writer, and the Reader's closure that stores the handle
WriterSubscribe ==
    /\ wbox # <<>>
    /\ Head(wbox).kind = "Subscribe"
    /\ wbox' = Tail(wbox)
    /\ rstore' = TRUE
    /\ rwait' = FALSE
    /\ UNCHANGED <<now, operation_id, front, oplog, timers, published, lastTimer,
                   lastFlush, rbox, tx, fut, ndec, sink, ackId, crashed, codecvars>>

\* Handler<Operation> for Writer
WriterOperation ==
    /\ wbox # <<>>
    /\ Head(wbox).kind = "Operation"
    /\ LET m == Head(wbox)
           id == NextOperationId(operation_id)
           e == WriterHandle(m.cmd, id, front, now)
           ops == oplog \o e.ops
       IN /\ operation_id' = id
          /\ front' = IF e.refresh THEN Refresh(front, ops) ELSE front
          /\ oplog' = IF e.refresh THEN <<>> ELSE ops
          /\ published' = IF e.refresh THEN id ELSE published
          /\ timers' = timers \cup e.timers
          /\ fut' = Resolve(fut, m.from, e.res, id)
          /\ lastFlush' = IF m.cmd.op \in {"FlushAll", "FlushDB"} THEN id ELSE lastFlush
    /\ wbox' = Tail(wbox)
    /\ UNCHANGED <<now, lastTimer, rbox, rstore, rwait, tx, ndec, sink, ackId, crashed,
                   codecvars>>

\* a closure scheduled by Writer::expire runs, at or after its time
TimerFire(t) ==
    /\ t \in timers
    /\ t.due <= now
    /\ LET e == ExpireCallback(front, t.key, t.operation_id)
           ops == oplog \o e.ops
       IN /\ front' = IF e.refresh THEN Refresh(front, ops) ELSE front
          /\ oplog' = IF e.refresh THEN <<>> ELSE ops
          /\ published' = IF e.refresh THEN operation_id ELSE published
    /\ timers' = timers \ {t}
    /\ lastTimer' = Some([key |-> t.key, operation_id |-> t.operation_id,
                          hit |-> ExpireCallback(front, t.key, t.operation_id).refresh])
    /\ UNCHANGED <<now, operation_id, lastFlush, wbox, rbox, rstore, rwait, tx, fut,
                   ndec, sink, ackId, crashed, codecvars>>

\* the clock advances; it stops at MaxTime unless a closure is still to come
Tick ==
    /\ \/ now < MaxTime
       \/ \E t \in timers : t.due > now
    /\ now' = now + 1
    /\ UNCHANGED <<operation_id, front, oplog, timers, published, lastTimer, lastFlush,
                   wbox, rbox, rstore, rwait, tx, fut, ndec, sink, ackId, crashed,
                   codecvars>>

\* Handler<Operation> for Reader
ReaderOperation ==
    /\ ~crashed
    /\ ~rwait
    /\ rbox # <<>>
    /\ LET m == Head(rbox)
           res == IF rstore THEN ReaderHandle(m.cmd, front) ELSE Err("panic")
       IN IF ~res.ok /\ res.err = "panic"
          THEN /\ crashed' = TRUE
               /\ UNCHANGED fut
          ELSE /\ crashed' = crashed
               /\ fut' = Resolve(fut, m.from, res, published)
    /\ rbox' = Tail(rbox)
    /\ UNCHANGED <<now, operation_id, front, oplog, timers, published, lastTimer,
                   lastFlush, wbox, rstore, rwait, tx, ndec, sink, ackId, codecvars>>

\* tx.send(msg) completes: the response is on the wire, the sink comes back
Respond(c) ==
    /\ ~crashed
    /\ fut[c].stage = "resolved"
    /\ fut[c].res.ok
    /\ sink' = [sink EXCEPT ![c] = Append(@, fut[c].idx)]
    /\ tx' = [tx EXCEPT ![c] = TRUE]
    /\ ackId' = IF writes(fut[c].cmd) /\ ~is_async(fut[c].cmd)
                THEN [ackId EXCEPT ![c] = fut[c].id] ELSE ackId
    /\ fut' = [fut EXCEPT ![c] = NoFuture]
    /\ UNCHANGED <<now, operation_id, front, oplog, timers, published, lastTimer,
                   lastFlush, wbox, rbox, rstore, rwait, ndec, crashed, codecvars>>

\* tx.send(msg) fails with an io::Error: map_err logs it, the sink is dropped
SendError(c) ==
    /\ ~crashed
    /\ fut[c].stage = "resolved"
    /\ fut[c].res.ok
    /\ fut' = [fut EXCEPT ![c] = NoFuture]
    /\ UNCHANGED <<now, operation_id, front, oplog, timers, published, lastTimer,
                   lastFlush, wbox, rbox, rstore, rwait, tx, ndec, sink, ackId,
                   crashed, codecvars>>

\* the response future resolved to an error: map_err logs it, the sink is dropped
Fail(c) ==
    /\ ~crashed
    /\ fut[c].stage = "resolved"
    /\ ~fut[c].res.ok
    /\ fut' = [fut EXCEPT ![c] = NoFuture]
    /\ UNCHANGED <<now, operation_id, front, oplog, timers, published, lastTimer,
                   lastFlush, wbox, rbox, rstore, rwait, tx, ndec, sink, ackId,
                   crashed, codecvars>>

---------------------------------------------------------------------------
(* The storage actors and the connections of one worker *)

CodecIdle ==
    /\ input = <<>>
    /\ buf = <<>>
    /\ out = <<>>
    /\ cres = "idle"
    /\ frames = <<>>
    /\ suffix = <<>>

\* Writer::default, Reader::default with its Subscribe in flight, Connection::new
ActorsStart(store) ==
    /\ now = 0
    /\ operation_id = 0
    /\ front = store
    /\ oplog = <<>>
    /\ timers = {}
    /\ published = 0
    /\ lastTimer = None
    /\ lastFlush = 0
    /\ wbox = <<Subscribe>>
    /\ rbox = <<>>
    /\ rstore = FALSE
    /\ rwait = TRUE
    /\ tx = [c \in Conns |-> TRUE]
    /\ fut = [c \in Conns |-> NoFuture]
    /\ ndec = [c \in Conns |-> 0]
    /\ sink = [c \in Conns |-> <<>>]
    /\ ackId = [c \in Conns |-> 0]
    /\ crashed = FALSE

\* Writer::default: the Writer makes its own, empty map
ActorsInit == ActorsStart(EmptyMap)

Init == ActorsInit /\ CodecIdle

\* the steps of the connections CS, whose streams yield commands of CMDS, and of
\* the storage actors
ActorStep(CS, CMDS) ==
    \/ \E c \in CS, cmd \in CMDS : ConnectionHandle(c, cmd)
    \/ \E c \in CS : RequestSend(c)
    \/ WriterSubscribe
    \/ WriterOperation
    \/ ReaderOperation
    \/ \E c \in CS : Respond(c)
    \/ \E c \in CS : SendError(c)
    \/ \E c \in CS : Fail(c)

\* the clock and the closures scheduled on the Writer
TimeStep ==
    \/ \E t \in timers : TimerFire(t)
    \/ Tick

\* the commands of the two-connection specification: no TTL, one key
ConnCommands ==
    {SetCmd("k1", v, None, "Always") : v \in Datas}
    \cup {DelCmd(<<"k1">>), FlushAllCmd("Async"), GetCmd("k1"), PingCmd(None),
          ExistsCmd(<<"k1">>)}

\* two connections on one worker, the Writer and the Reader
Next == ActorStep(Conns, ConnCommands)

Spec == Init /\ [][Next]_vars

\* one connection, every command, the clock
NextStore == ActorStep({"c1"}, Commands) \/ TimeStep

SpecStore == Init /\ [][NextStore]_vars

\* the commands that give, renew or drop a TTL, and those that remove or read;
\* the asynchronous flush is the one that can find the Writer's mailbox full
TTLCommands ==
    {SetCmd(k, "v1", t, "Always") : k \in Keys, t \in {None} \cup {Some(d) : d \in Durations}}
    \cup {ExpireCmd(k, d) : k \in Keys, d \in Durations}
    \cup {PersistCmd(k) : k \in Keys}
    \cup {DelCmd(<<k>>) : k \in Keys}
    \cup {GetCmd(k) : k \in Keys}
    \cup {FlushAllCmd("Async")}

NextTTL == ActorStep({"c1"}, TTLCommands) \/ TimeStep

\* the clock and every closure that is due get their turn: the Writer's context
\* polls its timers on every turn of the event loop
SpecTTLFair ==
    /\ Init
    /\ [][NextTTL]_vars
    /\ WF_vars(Tick)
    /\ WF_vars(\E t \in timers : TimerFire(t))

---------------------------------------------------------------------------
(* Properties *)

IdOf(map, k) == Unwrap(map[k]).meta.operation_id

ExpirationOf(map, k) == Unwrap(map[k]).meta.expiration

\* the Writer's own view: the published map with the pending operations applied
WriterView == ApplyOps(front, oplog)

\* C1: per connection, responses are written in the order the commands were
\* decoded, and while the response future of a command is in flight it belongs to
\* the last command decoded and every earlier response has already been written:
\* the next command is not handled, and sends nothing, before that.
C1_PerConnectionOrdering ==
    \A c \in Conns :
        /\ \A i, j \in 1..Len(sink[c]) : i < j => sink[c][i] < sink[c][j]
        /\ fut[c].stage # "none" =>
              /\ fut[c].idx = ndec[c]
              /\ \A i \in 1..Len(sink[c]) : sink[c][i] < fut[c].idx
              /\ Len(sink[c]) = fut[c].idx - 1

\* both connections have answered pipelined commands, one of them two in a row
C1_Witness ==
    /\ sink["c1"] = <<1, 2>>
    /\ sink["c2"] = <<1>>

\* C2: when the closure scheduled for (key, id) runs, it removes the item at key
\* and publishes exactly when the item stored under key carries id; when the key
\* is absent or carries another id, store and pending operations stay as they are.
C2_TTLIdentity ==
    [][\A t \in timers : TimerFire(t) =>
          IF IsSome(front[t.key]) /\ IdOf(front, t.key) = t.operation_id
          THEN /\ front' = [front EXCEPT ![t.key] = None]
               /\ oplog' = <<>>
          ELSE UNCHANGED <<front, oplog, published>>]_vars

\* a closure ran on a key that a later mutation had given a new TTL, and left it
C2_Witness ==
    /\ IsSome(lastTimer)
    /\ ~Unwrap(lastTimer).hit
    /\ IsSome(front[Unwrap(lastTimer).key])
    /\ IdOf(front, Unwrap(lastTimer).key) > Unwrap(lastTimer).operation_id
    /\ IsSome(ExpirationOf(front, Unwrap(lastTimer).key))

\* the Writer handles a DEL naming k, or a FLUSHALL or FLUSHDB
RemovesByCommand(k) ==
    /\ wbox # <<>>
    /\ Head(wbox).kind = "Operation"
    /\ wbox' = Tail(wbox)
    /\ operation_id' = operation_id + 1
    /\ \/ Head(wbox).cmd.op \in {"FlushAll", "FlushDB"}
       \/ /\ Head(wbox).cmd.op = "Del"
          /\ \E i \in 1..Len(Head(wbox).cmd.keys) : Head(wbox).cmd.keys[i] = k

\* C3: an item whose expiration is None leaves the store only when the Writer
\* handles a DEL naming its key or a FLUSHALL/FLUSHDB; no expiration closure ever
\* removes it, whatever TTL the key had before.
C3_ResetCancelsTTL ==
    [][\A k \in Keys :
          (IsSome(front[k]) /\ ~IsSome(ExpirationOf(front, k)) /\ ~IsSome(front'[k]))
              => RemovesByCommand(k)]_vars

\* the closure of an earlier TTL ran and left the key, which now has no expiration
C3_Witness ==
    /\ IsSome(lastTimer)
    /\ ~Unwrap(lastTimer).hit
    /\ IsSome(front[Unwrap(lastTimer).key])
    /\ IdOf(front, Unwrap(lastTimer).key) > Unwrap(lastTimer).operation_id
    /\ ~IsSome(ExpirationOf(front, Unwrap(lastTimer).key))

\* C4: an item written with a TTL is eventually gone from the published map, or
\* has been rewritten by a later mutation, once the clock and the closures get
\* their turn; a GET then finds no item under the key and answers Nil.
C4_TTLExpiryEventually ==
    \A k \in Keys : \A i \in 1..(MaxOpId + 1) :
        (IsSome(front[k]) /\ IdOf(front, k) = i /\ IsSome(ExpirationOf(front, k)))
            ~> (~IsSome(front[k]) \/ IdOf(front, k) # i)

\* a closure ran, removed its key, and a GET of the key now answers Nil
C4_Witness ==
    /\ IsSome(lastTimer)
    /\ Unwrap(lastTimer).hit
    /\ ~IsSome(front[Unwrap(lastTimer).key])
    /\ ReaderHandle(GetCmd(Unwrap(lastTimer).key), front) = Ok(RNil)

\* C5: the Writer's counter never decreases, every operation the Writer handles
\* gets an id strictly above all ids assigned before, and that id is the one its
\* response and the item it writes carry.
C5_MonotonicOperationId ==
    [][/\ operation_id' >= operation_id
       /\ WriterOperation =>
             /\ operation_id' > operation_id
             /\ \A k \in Keys : front'[k] # front[k] /\ IsSome(front'[k])
                    => IdOf(front', k) = operation_id'
             /\ \A k \in Keys : IsSome(front[k]) => IdOf(front, k) < operation_id']_vars

\* three mutations handled, two of them left items, with different ids
C5_Witness ==
    /\ operation_id >= 3
    /\ \E k, l \in Keys : IsSome(front[k]) /\ IsSome(front[l]) /\ IdOf(front, k) < IdOf(front, l)

\* DEL on a sequential map: a key that was removed is no longer there
RECURSIVE RefDel(_, _)
RefDel(keys, map) ==
    IF keys = <<>> THEN [count |-> 0, map |-> map]
    ELSE LET here == IsSome(map[Head(keys)])
             rest == RefDel(Tail(keys), [map EXCEPT ![Head(keys)] = None])
         IN [count |-> rest.count + (IF here THEN 1 ELSE 0), map |-> rest.map]

\* the reference: a sequential map to which a write command is applied at once
Reference(map, cmd, id, t) ==
    CASE cmd.op = "Set" ->
            IF \/ cmd.cond = "Always"
               \/ cmd.cond = "IfExists" /\ IsSome(map[cmd.key])
               \/ cmd.cond = "IfNotExists" /\ ~IsSome(map[cmd.key])
            THEN [map |-> [map EXCEPT ![cmd.key] =
                              Some(Item(StringValue(cmd.value),
                                        IF IsSome(cmd.ttl) THEN Some(t + Unwrap(cmd.ttl)) ELSE None,
                                        id))],
                  resp |-> ROk]
            ELSE [map |-> map, resp |-> RNil]
      [] cmd.op = "Del" ->
            [map |-> RefDel(cmd.keys, map).map, resp |-> RInteger(RefDel(cmd.keys, map).count)]
      [] cmd.op = "Expire" ->
            IF IsSome(map[cmd.key])
            THEN [map |-> [map EXCEPT ![cmd.key] =
                              Some(Item(Unwrap(map[cmd.key]).value, Some(t + cmd.ttl), id))],
                  resp |-> RInteger(1)]
            ELSE [map |-> map, resp |-> RInteger(0)]
      [] cmd.op = "Persist" ->
            IF IsSome(map[cmd.key])
            THEN [map |-> [map EXCEPT ![cmd.key] =
                              Some(Item(Unwrap(map[cmd.key]).value, None, id))],
                  resp |-> RInteger(1)]
            ELSE [map |-> map, resp |-> RInteger(0)]
      [] OTHER -> [map |-> EmptyMap, resp |-> ROk]

\* the step in which the Writer handles the write command at the head of its
\* mailbox leaves the store and the response the reference gives
MatchesReference ==
    LET m == Head(wbox)
        r == Reference(front, m.cmd, operation_id + 1, now)
    IN /\ front' = r.map
       /\ oplog' = <<>>
       /\ (m.from \in Conns /\ fut[m.from].stage = "pending")
              => fut'[m.from].res = Ok(r.resp)

\* C6: the Writer handles one write command per step, and each such step takes
\* the store to the state, and answers with the response, that a sequential map
\* gives when the same command is applied to it at once.
C6_WriterSerializable == [][WriterOperation => MatchesReference]_vars

\* C7: the published map is at every moment the Writer's state at the end of its
\* last mutation (nothing is applied but unpublished, nothing half-applied is
\* visible); an item changes only together with a fresh operation id, which it
\* then carries, so each pair is the one written by the one mutation with that id;
\* publications only move forward, and a read is answered from the latest one.
C7_Committed ==
    /\ oplog = <<>>
    /\ published = operation_id
    /\ \A k \in Keys : IsSome(front[k]) => IdOf(front, k) \in 1..operation_id
    /\ \A c \in Conns : (fut[c].stage = "resolved" /\ reads(fut[c].cmd))
          => fut[c].id <= published

C7_Step ==
    /\ \A k \in Keys : (front'[k] # front[k] /\ IsSome(front'[k]))
          => (IdOf(front', k) = operation_id' /\ operation_id' = operation_id + 1)
    /\ published' >= published
    /\ ReaderOperation =>
          \A c \in Conns : (fut[c].stage = "pending" /\ fut'[c].stage = "resolved")
              => /\ fut'[c].id = published
                 /\ fut'[c].res = ReaderHandle(fut[c].cmd, WriterView)

C7_ReadersSeeCommitted == []C7_Committed /\ [][C7_Step]_vars

\* a GET was answered from a snapshot that a second or later mutation published
C7_Witness ==
    \E c \in Conns :
        /\ fut[c].stage = "resolved"
        /\ fut[c].cmd.op = "Get"
        /\ fut[c].res.ok
        /\ fut[c].res.resp.t = "Bulk"
        /\ fut[c].id >= 2
        /\ IsSome(front[fut[c].cmd.key])
        /\ IdOf(front, fut[c].cmd.key) = fut[c].id

\* C8: a response to a synchronous write exists only once the write is published;
\* a read observes a publication at least as new as every write that had been
\* answered, on any connection, when the read was dispatched; and a GET that
\* follows, on the same connection, the answered write that still owns the key
\* returns the value that write stored.
C8_ReadYourWrites ==
    \A c \in Conns :
        fut[c].stage = "resolved" =>
            /\ (writes(fut[c].cmd) /\ ~is_async(fut[c].cmd) /\ fut[c].res.ok)
                  => (fut[c].id <= published /\ oplog = <<>>)
            /\ reads(fut[c].cmd) => fut[c].id >= fut[c].floor
            /\ (fut[c].cmd.op = "Get" /\ ackId[c] > 0
                    /\ IsSome(WriterView[fut[c].cmd.key])
                    /\ IdOf(WriterView, fut[c].cmd.key) = ackId[c])
                  => fut[c].res =
                        Ok(RBulk(Unwrap(WriterView[fut[c].cmd.key]).value.data))

\* SET answered Ok, then GET of the key on the same connection answered Bulk
C8_Witness ==
    \E c \in Conns :
        /\ fut[c].stage = "resolved"
        /\ fut[c].cmd.op = "Get"
        /\ ackId[c] > 0
        /\ IsSome(front[fut[c].cmd.key])
        /\ IdOf(front, fut[c].cmd.key) = ackId[c]
        /\ fut[c].res = Ok(RBulk(Unwrap(front[fut[c].cmd.key]).value.data))
        /\ sink[c] = <<1>>

---------------------------------------------------------------------------
(* codecs/resp2.rs: the RESP2 values on the wire. A buffer is a sequence of  *)
(* bytes; a byte is written as a one-character string, CR and LF by name.   *)

CR == "CR"

LF == "LF"

CRLF == <<CR, LF>>

DigitChars == <<"0", "1", "2", "3", "4", "5", "6", "7", "8", "9">>

IsDigit(b) == \E i \in 1..10 : DigitChars[i] = b

DigitVal(b) == (CHOOSE i \in 1..10 : DigitChars[i] = b) - 1

SimpleString(d) == [t |-> "SimpleString", data |-> d]

ErrorValue(d) == [t |-> "Error", data |-> d]

IntegerValue(n) == [t |-> "Integer", n |-> n]

BulkString(d) == [t |-> "BulkString", data |-> d]

Array(vs) == [t |-> "Array", elems |-> vs]

Nil == [t |-> "Nil"]

\* i64::to_string, usize::to_string
RECURSIVE to_string(_)
to_string(n) ==
    IF n < 0 THEN <<"-">> \o to_string(0 - n)
    ELSE IF n < 10 THEN <<DigitChars[n + 1]>>
    ELSE to_string(n \div 10) \o <<DigitChars[(n % 10) + 1]>>

\* str::parse for isize and i64: an optional sign, then at least one digit
RECURSIVE ParseDigits(_, _)
ParseDigits(ds, acc) ==
    IF ds = <<>> THEN [ok |-> TRUE, n |-> acc]
    ELSE IF ~IsDigit(Head(ds)) THEN [ok |-> FALSE, n |-> 0]
    ELSE ParseDigits(Tail(ds), acc * 10 + DigitVal(Head(ds)))

\* a parse that takes digits only, no sign
parse_unsigned(repr) ==
    IF repr = <<>> \/ ~ParseDigits(repr, 0).ok THEN [ok |-> FALSE, n |-> 0]
    ELSE [ok |-> TRUE, n |-> ParseDigits(repr, 0).n]

parse(repr) ==
    IF repr = <<>> THEN [ok |-> FALSE, n |-> 0]
    ELSE LET signed == Head(repr) \in {"+", "-"}
             ds == IF signed THEN Tail(repr) ELSE repr
             r == ParseDigits(ds, 0)
         IN IF ds = <<>> \/ ~r.ok THEN [ok |-> FALSE, n |-> 0]
            ELSE [ok |-> TRUE, n |-> IF Head(repr) = "-" THEN 0 - r.n ELSE r.n]

\* Value::write_to, as the bytes it appends
RECURSIVE write_to(_)
RECURSIVE write_all(_)
write_to(v) ==
    CASE v.t = "Nil" -> <<"$", "-", "1">> \o CRLF
      [] v.t = "SimpleString" -> <<"+">> \o v.data \o CRLF
      [] v.t = "Error" -> <<"-">> \o v.data \o CRLF
      [] v.t = "Integer" -> <<":">> \o to_string(v.n) \o CRLF
      [] v.t = "BulkString" -> <<"$">> \o to_string(Len(v.data)) \o CRLF \o v.data \o CRLF
      [] v.t = "Array" -> <<"*">> \o to_string(Len(v.elems)) \o CRLF \o write_all(v.elems)

write_all(vs) == IF vs = <<>> THEN <<>> ELSE write_to(Head(vs)) \o write_all(Tail(vs))

\* the outcomes of a read: Ok(None), Ok(Some(value)), Err(error), or a panic;
\* buf is the buffer as the call leaves it
ReadNone(b) == [t |-> "None", buf |-> b]

ReadSome(v, b) == [t |-> "Some", value |-> v, buf |-> b]

ReadErr(e, b) == [t |-> "Err", err |-> e, buf |-> b]

ReadPanic(b) == [t |-> "Panic", buf |-> b]

Drop(b, n) == SubSeq(b, n + 1, Len(b))

Take(b, n) == SubSeq(b, 1, n)

\* read_simple: the line up to and with the first CR LF, split off the buffer
read_simple(buffer) ==
    LET ends == {i \in 1..Len(buffer) : buffer[i] \in {CR, LF}}
        pos == CHOOSE i \in ends : \A j \in ends : i <= j
    IN IF ends = {} THEN ReadNone(buffer)
       ELSE IF pos = Len(buffer) THEN ReadNone(buffer)
       ELSE IF buffer[pos] # CR THEN ReadErr("UnexpectedByte", buffer)
       ELSE IF buffer[pos + 1] # LF THEN ReadErr("UnexpectedByte", buffer)
       ELSE ReadSome(Take(buffer, pos + 1), Drop(buffer, pos + 1))

\* command[1..command.len() - 2]
Repr(line) == SubSeq(line, 2, Len(line) - 2)

\* a bulk string arm that leaves the terminator of the payload in the buffer
read_bulk_keeps_terminator(len, buffer, original) ==
    IF len = -1 THEN ReadSome(Nil, buffer)
    ELSE IF len < 0 THEN ReadErr("InvalidLength", original)
    ELSE IF Len(buffer) < len + 2 THEN ReadNone(buffer)
    ELSE ReadSome(BulkString(Take(buffer, len)), Drop(buffer, len))

\* the tail of the bulk string arm, once the length line is read and parsed:
\* buffer is what follows the line, original the buffer at entry
read_bulk(len, buffer, original) ==
    IF len = -1 THEN ReadSome(Nil, buffer)
    ELSE IF len < 0 THEN ReadErr("InvalidLength", original)
    ELSE IF Len(buffer) < len + 2 THEN ReadNone(buffer)
    ELSE IF buffer[len + 1] # CR THEN ReadErr("UnexpectedByte", buffer)
    ELSE IF buffer[len + 2] # LF THEN ReadErr("UnexpectedByte", buffer)
    ELSE ReadSome(BulkString(Take(buffer, len)), Drop(buffer, len + 2))

\* Value::read_from
RECURSIVE read_from(_)
RECURSIVE read_elements(_, _, _, _)
read_from(buffer) ==
    IF buffer = <<>> THEN ReadNone(buffer)
    ELSE LET original == buffer
             line == read_simple(buffer)
             n == parse(Repr(line.value))
         IN CASE buffer[1] \in {"+", "-"} ->
                    IF line.t # "Some" THEN line
                    ELSE ReadSome(IF buffer[1] = "+" THEN SimpleString(Repr(line.value))
                                  ELSE ErrorValue(Repr(line.value)), line.buf)
              [] buffer[1] = ":" ->
                    IF line.t # "Some" THEN line
                    ELSE IF ~n.ok THEN ReadErr("InvalidInteger", line.buf)
                    ELSE ReadSome(IntegerValue(n.n), line.buf)
              [] buffer[1] = "*" ->
                    IF line.t # "Some" THEN line
                    ELSE IF ~n.ok THEN ReadErr("InvalidInteger", original)
                    ELSE IF n.n = -1 THEN ReadSome(Nil, line.buf)
                    \* Vec::with_capacity(len as usize) of a negative len
                    ELSE IF n.n < 0 THEN ReadPanic(line.buf)
                    ELSE read_elements(n.n, <<>>, line.buf, original)
              [] buffer[1] = "$" ->
                    IF line.t # "Some" THEN line
                    ELSE IF ~n.ok THEN ReadErr("InvalidInteger", original)
                    ELSE read_bulk(n.n, line.buf, original)
              [] OTHER -> ReadErr("UnexpectedByte", buffer)

\* an array arm that bails without putting the buffer back
read_elements_unrestored(left, values, buffer, original) ==
    IF left = 0 THEN ReadSome(Array(values), buffer)
    ELSE LET r == read_from(buffer)
         IN IF r.t = "Some"
            THEN read_elements(left - 1, Append(values, r.value), r.buf, original)
            ELSE r

\* the loop of the array arm: left elements are still to read from buffer
read_elements(left, values, buffer, original) ==
    IF left = 0 THEN ReadSome(Array(values), buffer)
    ELSE LET r == read_from(buffer)
         IN CASE r.t = "Some" ->
                    read_elements(left - 1, Append(values, r.value), r.buf, original)
              [] r.t = "None" -> ReadNone(original)
              [] r.t = "Err" -> ReadErr(r.err, original)
              [] OTHER -> r

\* ProtocolCodec::decode_from of resp2::Value; the Set it builds carries the
\* key and the value alone: no expiration, no condition
Name(elems) == Head(elems)

Args(elems) == Tail(elems)

IsName(name, lower, upper) == name = lower \/ name = upper

decode_command(elems, b) ==
    LET name == Name(elems)
        args == Args(elems)
    IN CASE IsName(name, <<"p", "i", "n", "g">>, <<"P", "I", "N", "G">>) ->
               IF Len(args) = 0 THEN ReadSome(PingCmd(None), b)
               ELSE IF Len(args) = 1 THEN ReadSome(PingCmd(Some(args[1])), b)
               ELSE ReadErr("UnexpectedNumberOfArguments", b)
         [] IsName(name, <<"g", "e", "t">>, <<"G", "E", "T">>) ->
               IF Len(args) = 1 THEN ReadSome(GetCmd(args[1]), b)
               ELSE ReadErr("UnexpectedNumberOfArguments", b)
         [] IsName(name, <<"s", "e", "t">>, <<"S", "E", "T">>) ->
               IF Len(args) = 2 THEN ReadSome(SetCmd(args[1], args[2], None, "Always"), b)
               ELSE ReadErr("UnexpectedNumberOfArguments", b)
         [] IsName(name, <<"d", "e", "l">>, <<"D", "E", "L">>) ->
               IF Len(elems) > 1 THEN ReadSome(DelCmd(args), b)
               ELSE ReadErr("UnexpectedNumberOfArguments", b)
         [] IsName(name, <<"e", "x", "i", "s", "t", "s">>, <<"E", "X", "I", "S", "T", "S">>) ->
               IF Len(elems) > 1 THEN ReadSome(ExistsCmd(args), b)
               ELSE ReadErr("UnexpectedNumberOfArguments", b)
         [] OTHER -> ReadErr("UnrecognizedCommand", b)

\* a decoder that takes whatever it cannot map for a command it does not know
decode_from_unrecognized(buffer) ==
    LET r == read_from(buffer)
    IN IF r.t # "Some" THEN r
       ELSE IF r.value.t # "Array" THEN ReadErr("UnrecognizedCommand", r.buf)
       ELSE IF \E i \in 1..Len(r.value.elems) : r.value.elems[i].t # "BulkString"
            THEN ReadErr("UnrecognizedCommand", r.buf)
       ELSE IF r.value.elems = <<>> THEN ReadPanic(r.buf)
       ELSE decode_command([i \in 1..Len(r.value.elems) |-> r.value.elems[i].data], r.buf)

decode_from(buffer) ==
    LET r == read_from(buffer)
    IN IF r.t # "Some" THEN r
       ELSE IF r.value.t # "Array" THEN ReadErr("InvalidDataType", r.buf)
       ELSE IF \E i \in 1..Len(r.value.elems) : r.value.elems[i].t # "BulkString"
            THEN ReadErr("InvalidDataType", r.buf)
       \* elems[0] of an empty vector
       ELSE IF r.value.elems = <<>> THEN ReadPanic(r.buf)
       ELSE decode_command([i \in 1..Len(r.value.elems) |-> r.value.elems[i].data], r.buf)

\* StreamCodec::decode
decode(buffer) == IF buffer = <<>> THEN ReadNone(buffer) ELSE decode_from(buffer)

---------------------------------------------------------------------------
(* The framed stream of a connection: bytes arrive in chunks, and the codec *)
(* is asked for a command after every arrival and after every command      *)

\* frames of one byte sequence
MaxFrames == 2

\* what a client sends for a command: an array of bulk strings
Frame(args) == write_to(Array([i \in 1..Len(args) |-> BulkString(args[i])]))

Sent(args, cmd) == [args |-> args, cmd |-> cmd]

FrameCatalogue ==
    { Sent(<<<<"P", "I", "N", "G">>>>, PingCmd(None)),
      Sent(<<<<"g", "e", "t">>, <<"a">>>>, GetCmd(<<"a">>)),
      Sent(<<<<"S", "E", "T">>, <<"a">>, <<"x", CR, LF, "y">>>>,
           SetCmd(<<"a">>, <<"x", CR, LF, "y">>, None, "Always")),
      Sent(<<<<"D", "E", "L">>, <<"a">>, <<"b">>>>, DelCmd(<<<<"a">>, <<"b">>>>)),
      Sent(<<<<"E", "X", "I", "S", "T", "S">>, <<>>>>, ExistsCmd(<<<<>>>>)) }

ProperPrefixes(b) == {Take(b, n) : n \in 0..(Len(b) - 1)}

\* the partial frames that may trail the complete ones
PartialFrames ==
    UNION {ProperPrefixes(Frame(f.args)) : f \in FrameCatalogue}

RECURSIVE Bytes(_)
Bytes(fs) == IF fs = <<>> THEN <<>> ELSE Frame(Head(fs).args) \o Bytes(Tail(fs))

CommandsOf(fs) == [i \in 1..Len(fs) |-> fs[i].cmd]

FrameSeqs == UNION {[1..n -> FrameCatalogue] : n \in 0..MaxFrames}

\* the socket delivers the next n bytes; the stream was waiting for them
Receive(n) ==
    /\ cres = "None"
    /\ input # <<>>
    /\ n \in 1..Len(input)
    /\ buf' = buf \o Take(input, n)
    /\ input' = Drop(input, n)
    /\ cres' = "read"
    /\ UNCHANGED <<out, frames, suffix, sysvars>>

\* the stream calls StreamCodec::decode on its buffer
Decode ==
    /\ cres \in {"read", "Some"}
    /\ LET r == decode(buf)
       IN /\ buf' = r.buf
          /\ cres' = r.t
          /\ out' = IF r.t = "Some" THEN Append(out, r.value) ELSE out
    /\ UNCHANGED <<input, frames, suffix, sysvars>>

\* byte by byte, or all that is left in one piece
NextCodec ==
    \/ \E n \in {1, Len(input)} : Receive(n)
    \/ Decode

\* a client has sent complete frames and a part of one more
InitCodec ==
    /\ ActorsInit
    /\ frames \in FrameSeqs
    /\ suffix \in PartialFrames
    /\ input = Bytes(frames) \o suffix
    /\ buf = <<>>
    /\ out = <<>>
    /\ cres = "None"

SpecCodec == InitCodec /\ [][NextCodec]_vars

\* values of every type, to be read while they are still arriving
ValueCatalogue ==
    { SimpleString(<<"O", "K">>),
      ErrorValue(<<"E">>),
      IntegerValue(60),
      IntegerValue(-5),
      BulkString(<<"a", "b">>),
      BulkString(<<"x", CR, LF>>),
      Nil,
      Array(<<BulkString(<<"a">>), IntegerValue(7)>>),
      Array(<<Array(<<SimpleString(<<"O">>)>>), BulkString(<<"a", "b">>)>>) }

\* the incomplete, so far valid buffers: what has arrived of a value
PartialValues ==
    UNION {ProperPrefixes(write_to(v)) : v \in ValueCatalogue}

\* a part of one value is on its way, of whatever type
InitValue ==
    /\ ActorsInit
    /\ frames = <<>>
    /\ suffix \in PartialValues
    /\ input = suffix
    /\ buf = <<>>
    /\ out = <<>>
    /\ cres = "None"

SpecValue == InitValue /\ [][NextCodec]_vars

\* C9: a byte sequence made of complete command frames and a part of one more,
\* delivered byte by byte, in one piece, or byte by byte up to some point and
\* the rest in one piece, never makes the decoder fail; the commands decoded so
\* far are the first commands of the frames, in order; and once every byte is
\* delivered and the decoder has answered None, the commands are exactly those
\* of the frames and the buffer holds exactly the partial frame.
C9_StreamingDecode ==
    /\ cres \notin {"Err", "Panic"}
    /\ Len(out) <= Len(frames)
    /\ out = SubSeq(CommandsOf(frames), 1, Len(out))
    /\ (input = <<>> /\ cres = "None") => (out = CommandsOf(frames) /\ buf = suffix)

C9_Witness ==
    /\ input = <<>>
    /\ cres = "None"
    /\ Len(frames) = MaxFrames
    /\ out = CommandsOf(frames)
    /\ suffix = Take(Frame(<<<<"S", "E", "T">>, <<"a">>, <<"x", CR, LF, "y">>>>), 22)
    /\ buf = suffix

---------------------------------------------------------------------------
(* codecs/resp2.rs, codecs.rs: the encoder, and values written and read back *)

WrongTypeText ==
    <<"W", "R", "O", "N", "G", "T", "Y", "P", "E", " ", "O", "p", "e", "r",
       "a", "t", "i", "o", "n", " ", "a", "g", "a", "i", "n", "s", "t", " ",
       "a", " ", "k", "e", "y", " ", "h", "o", "l", "d", "i", "n", "g", " ",
       "t", "h", "e", " ", "w", "r", "o", "n", "g", " ", "k", "i", "n", "d",
       " ", "o", "f", " ", "v", "a", "l", "u", "e">>

\* a response that leaves out what the client is owed: Nil sent as an empty bulk
encode_value_empty_nil(response) ==
    CASE response.t = "Nil" -> BulkString(<<>>)
      [] response.t = "Pong" -> SimpleString(<<"P", "O", "N", "G">>)
      [] response.t = "Ok" -> SimpleString(<<"O", "K">>)
      [] response.t = "Integer" -> IntegerValue(response.n)
      [] response.t = "Bulk" -> BulkString(response.data)
      [] response.t = "Error" /\ response.e = "WrongType" -> ErrorValue(WrongTypeText)

\* the match of encode_to: the wire value of a response
encode_value(response) ==
    CASE response.t = "Nil" -> Nil
      [] response.t = "Pong" -> SimpleString(<<"P", "O", "N", "G">>)
      [] response.t = "Ok" -> SimpleString(<<"O", "K">>)
      [] response.t = "Integer" -> IntegerValue(response.n)
      [] response.t = "Bulk" -> BulkString(response.data)
      [] response.t = "Error" /\ response.e = "WrongType" -> ErrorValue(WrongTypeText)

\* ProtocolCodec::encode_to of resp2::Value: the buffer after the call
encode_to(response, buffer) == buffer \o write_to(encode_value(response))

\* StreamCodec::encode
encode(response, buffer) == encode_to(response, buffer)

\* values written to a buffer and read back
WireValues ==
    ValueCatalogue \cup
    { SimpleString(<<>>),
      ErrorValue(<<"E", "R", "R", " ", "x">>),
      IntegerValue(0),
      IntegerValue(105),
      BulkString(<<>>),
      BulkString(DigitChars \o <<CR, LF, "$">>),
      Array(<<>>),
      Array(<<Nil, IntegerValue(-12), Array(<<>>)>>) }

\* responses handed to the encoder
WireResponses ==
    {ROk, RPong, RNil, RError("WrongType")}
    \cup {RInteger(n) : n \in {0, 7, -5, 60, 105, -12}}
    \cup {RBulk(b) : b \in {<<>>, <<"a", "b">>, <<"x", CR, LF>>, DigitChars}}

ExtraBytes == {"+", "x", CR, LF, "1"}

\* bytes that follow a value in the buffer
Extras == {<<>>} \cup {<<a>> : a \in ExtraBytes} \cup {<<a, b>> : a, b \in ExtraBytes}

\* what the buffer holds before anything is written to it
Priors == {<<>>, <<"x">>, <<"+", "O", "K", CR, LF>>}

Subject(kind, x) == [kind |-> kind, x |-> x]

Subjects ==
    {Subject("value", v) : v \in WireValues}
    \cup {Subject("response", r) : r \in WireResponses}

\* Value::write_to appends the value to the buffer
WriteValue ==
    /\ cres = "idle"
    /\ frames # <<>>
    /\ frames[1].kind = "value"
    /\ buf' = buf \o write_to(frames[1].x)
    /\ cres' = "written"
    /\ UNCHANGED <<input, out, frames, suffix, sysvars>>

\* StreamCodec::encode appends the response to the buffer
EncodeResponse ==
    /\ cres = "idle"
    /\ frames # <<>>
    /\ frames[1].kind = "response"
    /\ buf' = encode(frames[1].x, buf)
    /\ cres' = "encoded"
    /\ UNCHANGED <<input, out, frames, suffix, sysvars>>

\* further bytes land in the buffer behind what was written
Extend ==
    /\ cres \in {"written", "encoded"}
    /\ input # <<>>
    /\ buf' = buf \o input
    /\ input' = <<>>
    /\ UNCHANGED <<out, cres, frames, suffix, sysvars>>

\* Value::read_from on the buffer
ReadValue ==
    /\ cres \in {"written", "encoded"}
    /\ LET r == read_from(buf)
       IN /\ buf' = r.buf
          /\ cres' = r.t
          /\ out' = IF r.t = "Some" THEN Append(out, r.value) ELSE out
    /\ UNCHANGED <<input, frames, suffix, sysvars>>

NextWire == WriteValue \/ EncodeResponse \/ Extend \/ ReadValue

\* a buffer, a value or a response to put in it, and bytes to follow
InitWire ==
    /\ ActorsInit
    /\ buf \in Priors
    /\ input \in Extras
    /\ frames \in {<<s>> : s \in Subjects}
    /\ out = <<>>
    /\ suffix = <<>>
    /\ cres = "idle"

SpecWire == InitWire /\ [][NextWire]_vars

StartsWith(b, e) == Len(b) >= Len(e) /\ Take(b, Len(e)) = e

\* C11: whenever a value is read from a buffer that starts with the complete
\* encoding of a value w, whatever bytes follow it, the read returns Some(w) and
\* the buffer afterwards holds exactly the bytes that followed, unchanged.
C11_ConsumesOneValue ==
    [][ReadValue =>
          \A w \in WireValues :
              StartsWith(buf, write_to(w)) =>
                  /\ cres' = "Some"
                  /\ out' = Append(out, w)
                  /\ buf' = Drop(buf, Len(write_to(w)))]_vars

\* a nested array was read off a buffer and the two bytes behind it were left
C11_Witness ==
    /\ cres = "Some"
    /\ out = <<Array(<<Array(<<SimpleString(<<"O">>)>>), BulkString(<<"a", "b">>)>>)>>
    /\ buf = <<"x", CR>>
    /\ input = <<>>

\* C12: a value v written to an empty buffer and read back is v again, and the
\* buffer is empty afterwards; v is a simple string or error without CR or LF,
\* an integer, a bulk string of any bytes, nil, or an array of such values.
C12_RoundTrip ==
    [][(ReadValue /\ frames[1].kind = "value" /\ buf = write_to(frames[1].x)) =>
          /\ cres' = "Some"
          /\ out' = <<frames[1].x>>
          /\ buf' = <<>>]_vars

\* a bulk string holding CR LF came back from an otherwise empty buffer
C12_Witness ==
    /\ cres = "Some"
    /\ frames = <<Subject("value", BulkString(DigitChars \o <<CR, LF, "$">>))>>
    /\ out = <<BulkString(DigitChars \o <<CR, LF, "$">>)>>
    /\ buf = <<>>
    /\ input = <<"x">>

\* the decimal spellings the wire must carry, written out
Decimal ==
    (0 :> <<"0">>) @@ (2 :> <<"2">>) @@ (3 :> <<"3">>) @@ (7 :> <<"7">>)
    @@ (10 :> <<"1", "0">>) @@ (60 :> <<"6", "0">>) @@ (105 :> <<"1", "0", "5">>)
    @@ (-5 :> <<"-", "5">>) @@ (-12 :> <<"-", "1", "2">>)

\* the bytes a response must put on the wire
Wire(r) ==
    CASE r = ROk -> <<"+", "O", "K", CR, LF>>
      [] r = RPong -> <<"+", "P", "O", "N", "G", CR, LF>>
      [] r = RNil -> <<"$", "-", "1", CR, LF>>
      [] r.t = "Integer" -> <<":">> \o Decimal[r.n] \o <<CR, LF>>
      [] r.t = "Bulk" -> <<"$">> \o Decimal[Len(r.data)] \o <<CR, LF>> \o r.data \o <<CR, LF>>
      [] r = RError("WrongType") ->
            <<"-", "W", "R", "O", "N", "G", "T", "Y", "P", "E", " ",
              "O", "p", "e", "r", "a", "t", "i", "o", "n", " ",
              "a", "g", "a", "i", "n", "s", "t", " ", "a", " ", "k", "e", "y", " ",
              "h", "o", "l", "d", "i", "n", "g", " ", "t", "h", "e", " ",
              "w", "r", "o", "n", "g", " ", "k", "i", "n", "d", " ", "o", "f", " ",
              "v", "a", "l", "u", "e", CR, LF>>

\* C13: encoding a response r into a buffer that holds p leaves p in front and
\* appends exactly the wire bytes of r: +OK, +PONG, $-1, the signed decimal of an
\* integer behind a colon, a bulk behind a dollar and its length, and the fixed
\* WRONGTYPE error line, each ended by CR LF.
C13_EncodeBitExact ==
    [][EncodeResponse => buf' = buf \o Wire(frames[1].x)]_vars

\* the WRONGTYPE error was appended behind a response already in the buffer
C13_Witness ==
    /\ cres = "encoded"
    /\ frames = <<Subject("response", RError("WrongType"))>>
    /\ Len(buf) = 73
    /\ Take(buf, 5) = <<"+", "O", "K", CR, LF>>
    /\ SubSeq(buf, 6, 15) = <<"-", "W", "R", "O", "N", "G", "T", "Y", "P", "E">>

---------------------------------------------------------------------------
(* The framed stream fed what clients may send, well formed or not *)

\* bytes of a sequence sent with no regard for the protocol
MaxGarbage == 4

GarbageBytes == {"*", "$", "-", "0", "1", CR, LF}

Garbage == UNION {[1..n -> GarbageBytes] : n \in 0..MaxGarbage}

PING == <<"P", "I", "N", "G">>

GET == <<"G", "E", "T">>

SET == <<"S", "E", "T">>

DEL == <<"D", "E", "L">>

EXISTS == <<"E", "X", "I", "S", "T", "S">>

\* a command name as a client spelled it, and its all-uppercase spelling
Spelled(args, upper) == [args |-> args, upper |-> upper]

MixedCase ==
    { Spelled(<<<<"P", "i", "n", "g">>>>, <<PING>>),
      Spelled(<<<<"g", "E", "t">>, <<"a">>>>, <<GET, <<"a">>>>),
      Spelled(<<<<"S", "e", "t">>, <<"a">>, <<"x">>>>, <<SET, <<"a">>, <<"x">>>>),
      Spelled(<<<<"d", "e", "L">>, <<"a">>, <<"b">>>>, <<DEL, <<"a">>, <<"b">>>>),
      Spelled(<<<<"e", "X", "I", "S", "T", "S">>, <<"a">>>>, <<EXISTS, <<"a">>>>),
      Spelled(<<<<"p", "i", "n", "g">>, <<"x">>>>, <<PING, <<"x">>>>),
      Spelled(<<<<"e", "x", "i", "s", "t", "s">>, <<"a">>>>, <<EXISTS, <<"a">>>>) }

\* requests that must be refused, and the DecodeError each is refused with
Refused(bytes, err) == [bytes |-> bytes, err |-> err]

Malformed ==
    { Refused(Frame(<<<<"F", "O", "O">>>>), "UnrecognizedCommand"),
      Refused(Frame(<<<<"G", "E", "T", "X">>, <<"a">>>>), "UnrecognizedCommand"),
      Refused(Frame(<<<<>>, <<"a">>>>), "UnrecognizedCommand"),
      Refused(Frame(<<PING, <<"a">>, <<"b">>>>), "UnexpectedNumberOfArguments"),
      Refused(Frame(<<PING, <<"a">>, <<"b">>, <<"a">>>>), "UnexpectedNumberOfArguments"),
      Refused(Frame(<<GET>>), "UnexpectedNumberOfArguments"),
      Refused(Frame(<<GET, <<"a">>, <<"b">>>>), "UnexpectedNumberOfArguments"),
      Refused(Frame(<<SET>>), "UnexpectedNumberOfArguments"),
      Refused(Frame(<<SET, <<"a">>>>), "UnexpectedNumberOfArguments"),
      Refused(Frame(<<DEL>>), "UnexpectedNumberOfArguments"),
      Refused(Frame(<<<<"d", "e", "l">>>>), "UnexpectedNumberOfArguments"),
      Refused(Frame(<<EXISTS>>), "UnexpectedNumberOfArguments"),
      Refused(write_to(Array(<<BulkString(GET), IntegerValue(7)>>)), "InvalidDataType"),
      Refused(write_to(Array(<<SimpleString(PING)>>)), "InvalidDataType"),
      Refused(write_to(Array(<<BulkString(DEL), Nil>>)), "InvalidDataType"),
      Refused(write_to(Array(<<Array(<<BulkString(PING)>>)>>)), "InvalidDataType"),
      Refused(write_to(Array(<<BulkString(<<"F", "O", "O">>), ErrorValue(<<"E">>)>>)),
              "InvalidDataType"),
      Refused(write_to(SimpleString(PING)), "InvalidDataType"),
      Refused(write_to(ErrorValue(<<"E">>)), "InvalidDataType"),
      Refused(write_to(IntegerValue(7)), "InvalidDataType"),
      Refused(write_to(BulkString(PING)), "InvalidDataType"),
      Refused(write_to(Nil), "InvalidDataType") }

\* declared lengths below -1
NegativeLengths ==
    { <<"$", "-", "2", CR, LF>>, <<"*", "-", "2", CR, LF>>,
      <<"$", "-", "1", "0", CR, LF>>, <<"*", "-", "1", "0", CR, LF>> }

\* the command forms of the protocol, as bulk strings, and the Command of each;
\* durations are in seconds
CommandTable ==
    { Sent(<<SET, <<"a">>, <<"x">>>>, SetCmd(<<"a">>, <<"x">>, None, "Always")),
      Sent(<<SET, <<"a">>, <<"x">>, <<"E", "X">>, <<"1">>>>,
           SetCmd(<<"a">>, <<"x">>, Some(1), "Always")),
      Sent(<<SET, <<"a">>, <<"x">>, <<"P", "X">>, <<"1", "0", "0", "0">>>>,
           SetCmd(<<"a">>, <<"x">>, Some(1), "Always")),
      Sent(<<SET, <<"a">>, <<"x">>, <<"N", "X">>>>,
           SetCmd(<<"a">>, <<"x">>, None, "IfNotExists")),
      Sent(<<SET, <<"a">>, <<"x">>, <<"X", "X">>>>,
           SetCmd(<<"a">>, <<"x">>, None, "IfExists")),
      Sent(<<<<"E", "X", "P", "I", "R", "E">>, <<"a">>, <<"1">>>>, ExpireCmd(<<"a">>, 1)),
      Sent(<<<<"P", "E", "R", "S", "I", "S", "T">>, <<"a">>>>, PersistCmd(<<"a">>)),
      Sent(<<<<"F", "L", "U", "S", "H", "A", "L", "L">>>>, FlushAllCmd("Sync")),
      Sent(<<<<"F", "L", "U", "S", "H", "A", "L", "L">>, <<"S", "Y", "N", "C">>>>,
           FlushAllCmd("Sync")),
      Sent(<<<<"F", "L", "U", "S", "H", "A", "L", "L">>, <<"A", "S", "Y", "N", "C">>>>,
           FlushAllCmd("Async")),
      Sent(<<<<"F", "L", "U", "S", "H", "D", "B">>>>, FlushDBCmd("Sync")),
      Sent(<<<<"F", "L", "U", "S", "H", "D", "B">>, <<"A", "S", "Y", "N", "C">>>>,
           FlushDBCmd("Async")) }

\* what a client sends: right, wrong, or no protocol at all
Requests ==
    Garbage
    \cup NegativeLengths
    \cup {q.bytes : q \in Malformed}
    \cup {Frame(f.args) : f \in MixedCase}
    \cup {Frame(f.upper) : f \in MixedCase}
    \cup {Frame(f.args) : f \in CommandTable}

InitCommand ==
    /\ ActorsInit
    /\ input \in Requests
    /\ frames = <<input>>
    /\ suffix = <<>>
    /\ buf = <<>>
    /\ out = <<>>
    /\ cres = "None"

SpecCommand == InitCommand /\ [][NextCodec]_vars

\* C14: whenever the decoder is called on a buffer holding a command whose name
\* mixes upper and lower case, it produces the Command it produces for the same
\* arguments behind the all-uppercase name.
C14_CaseInsensitive ==
    [][Decode =>
          \A f \in MixedCase :
              buf = Frame(f.args) =>
                  /\ decode(Frame(f.upper)).t = "Some"
                  /\ cres' = "Some"
                  /\ out' = Append(out, decode(Frame(f.upper)).value)]_vars

\* C15: whenever the decoder is called on a buffer holding a complete request
\* that maps to no command, it fails with the error of its kind: an unknown
\* name with UnrecognizedCommand; PING with two or more arguments, GET with none
\* or two, SET with fewer than two, DEL or EXISTS with none, with
\* UnexpectedNumberOfArguments; an array with an element that is no bulk
\* string, or a value that is no array, with InvalidDataType.
C15_MappingErrors ==
    [][Decode =>
          \A q \in Malformed :
              buf = q.bytes =>
                  /\ cres' = "Err"
                  /\ decode(buf).err = q.err
                  /\ out' = out]_vars

\* GET with two keys was sent, every byte was delivered, and it was refused
C15_Witness ==
    /\ cres = "Err"
    /\ frames = <<Frame(<<GET, <<"a">>, <<"b">>>>)>>
    /\ decode(frames[1]).err = "UnexpectedNumberOfArguments"
    /\ input = <<>>
    /\ out = <<>>

\* C16: whenever the decoder is called on a buffer holding a bulk string or an
\* array whose declared length is below -1, it returns an error: not a value,
\* not None, and it does not panic.
C16_NegativeLengthRejected ==
    [][(Decode /\ buf \in NegativeLengths) => cres' = "Err"]_vars

\* C17: whatever bytes the buffer holds, the decoder returns None, a command or
\* an error, and never panics.
C17_DecodeTotal == cres # "Panic"

\* C18: whenever the decoder is called on a buffer holding one of the command
\* forms of the protocol (SET with and without EX, PX, NX, XX; EXPIRE; PERSIST;
\* FLUSHALL and FLUSHDB with and without SYNC or ASYNC), it produces the Command
\* of that form.
C18_CommandTableDecodable ==
    [][Decode =>
          \A f \in CommandTable :
              buf = Frame(f.args) =>
                  /\ cres' = "Some"
                  /\ out' = Append(out, f.cmd)]_vars

---------------------------------------------------------------------------
(* Reads *)

\* the item under k has an expiration and the clock has reached it
Expired(map, k, t) ==
    /\ IsSome(map[k])
    /\ IsSome(ExpirationOf(map, k))
    /\ Unwrap(ExpirationOf(map, k)) <= t

\* C19: whenever the Reader services a GET of a key, it answers Nil when the key
\* is absent or its item has an expiration that the clock has reached, whether or
\* not the Writer's closure has run yet, and the value when the clock has not
\* reached the expiration or there is none.
C19_NoExpiredGet ==
    [][\A c \in Conns :
          (ReaderOperation /\ rstore /\ Head(rbox).from = c /\ Head(rbox).cmd.op = "Get") =>
              LET k == Head(rbox).cmd.key
              IN fut'[c].res =
                    Ok(IF ~IsSome(front[k]) \/ Expired(front, k, now) THEN RNil
                       ELSE RBulk(Unwrap(front[k]).value.data))]_vars

\* what a store handed to Writer::new may hold under a key
StoredItems ==
    {Item(StringValue(d), None, 0) : d \in Datas}
    \cup {Item(OtherValue(v), None, 0) : v \in OtherVariants}

Stores == [Keys -> {None} \cup {Some(i) : i \in StoredItems}]

\* a Writer started on a store that is already filled, the Reader and a
\* connection that only reads
InitReader == (\E store \in Stores : ActorsStart(store)) /\ CodecIdle

GetCommands == {GetCmd(k) : k \in Keys}

NextReader ==
    \/ \E cmd \in GetCommands : ConnectionHandle("c1", cmd)
    \/ RequestSend("c1")
    \/ WriterSubscribe
    \/ ReaderOperation
    \/ Respond("c1")
    \/ SendError("c1")

SpecReader == InitReader /\ [][NextReader]_vars

\* C20: whenever the Reader services a GET of a key, it answers Nil when its
\* snapshot has no item under the key, Bulk(data) when the item holds
\* String(data), and the response Error(WrongType), not a failure, when it holds
\* a List, Set, OrderedSet or Hash; the store is left as it was; and once a
\* WrongType response is written the connection has its sink back and is ready
\* for the next command.
C20_GetByVariant ==
    /\ [][(ReaderOperation /\ rstore /\ Head(rbox).cmd.op = "Get") =>
             LET k == Head(rbox).cmd.key
                 c == Head(rbox).from
             IN /\ fut'[c].res =
                      Ok(CASE ~IsSome(front[k]) -> RNil
                           [] IsSome(front[k]) /\ Unwrap(front[k]).value.variant = "String" ->
                                 RBulk(Unwrap(front[k]).value.data)
                           [] OTHER -> RError("WrongType"))
                /\ UNCHANGED <<front, oplog, operation_id, crashed>>]_vars
    /\ [][\A c \in Conns :
             (Respond(c) /\ fut[c].res = Ok(RError("WrongType"))) =>
                 /\ sink'[c] = Append(sink[c], fut[c].idx)
                 /\ tx'[c]
                 /\ fut'[c].stage = "none"
                 /\ ~crashed']_vars

\* two GETs of keys holding a List and a Hash were answered, and a third is
\* answered WrongType and about to be written
C20_Witness ==
    /\ IsSome(front["k1"])
    /\ IsSome(front["k2"])
    /\ Unwrap(front["k1"]).value.variant = "List"
    /\ Unwrap(front["k2"]).value.variant = "Hash"
    /\ sink["c1"] = <<1, 2>>
    /\ fut["c1"].stage = "resolved"
    /\ fut["c1"].idx = 3
    /\ fut["c1"].res = Ok(RError("WrongType"))
    /\ ~crashed

---------------------------------------------------------------------------
(* EXISTS and DEL *)

\* the positions of a key list whose key is present in the map and not expired
PresentPositions(map, keys, t) ==
    {i \in 1..Len(keys) : IsSome(map[keys[i]]) /\ ~Expired(map, keys[i], t)}

\* C21: whenever a subscribed Reader services an EXISTS of a non-empty key list,
\* it answers Integer(n), n being the number of listed keys that are present and
\* not expired in its snapshot, and it leaves the store as it was.
C21_ExistsCounts ==
    [][(ReaderOperation /\ rstore /\ Head(rbox).cmd.op = "Exists") =>
          LET keys == Head(rbox).cmd.keys
              c == Head(rbox).from
          IN /\ fut'[c].stage = "resolved"
             /\ fut'[c].res = Ok(RInteger(Cardinality(PresentPositions(front, keys, now))))
             /\ UNCHANGED <<front, oplog, operation_id, crashed>>]_vars

\* the keys a list names
Listed(keys) == {keys[i] : i \in 1..Len(keys)}

\* the keys a map holds
Held(map) == {k \in Keys : IsSome(map[k])}

\* C22: whenever the Writer handles a DEL, every listed key is gone afterwards,
\* every other key is as before, and the answer is Integer(count), count being
\* the number of keys the store lost.
C22_DelCounts ==
    [][(WriterOperation /\ Head(wbox).cmd.op = "Del") =>
          LET keys == Head(wbox).cmd.keys
              c == Head(wbox).from
          IN /\ \A k \in Listed(keys) : ~IsSome(front'[k])
             /\ \A k \in Keys \ Listed(keys) : front'[k] = front[k]
             /\ oplog' = <<>>
             /\ fut'[c].stage = "resolved"
             /\ fut'[c].res =
                   Ok(RInteger(Cardinality(Held(front)) - Cardinality(Held(front'))))]_vars

---------------------------------------------------------------------------
(* SET, EXPIRE, PERSIST and the flushes, as the Writer handles them *)

\* a conditional SET turns the write down
TurnedDown(cond, exists) ==
    \/ cond = "IfNotExists" /\ exists
    \/ cond = "IfExists" /\ ~exists

\* C23: whenever the Writer handles a SET, then if the condition is IfNotExists
\* and the key exists in the writer's view, or IfExists and it does not, the
\* answer is Nil, the store is unchanged and no callback is scheduled;
\* otherwise the answer is Ok and the key holds String(value) with this SET's
\* operation id and expiration now + ttl when a ttl was given, none otherwise,
\* the other keys being as before.
C23_ConditionalSet ==
    [][(WriterOperation /\ Head(wbox).cmd.op = "Set") =>
          LET cmd == Head(wbox).cmd
              c == Head(wbox).from
              expires_at == IF IsSome(cmd.ttl) THEN Some(now + Unwrap(cmd.ttl)) ELSE None
          IN /\ fut'[c].stage = "resolved"
             /\ oplog' = <<>>
             /\ operation_id' = operation_id + 1
             /\ IF TurnedDown(cmd.cond, IsSome(WriterView[cmd.key]))
                THEN /\ fut'[c].res = Ok(RNil)
                     /\ front' = WriterView
                     /\ timers' = timers
                ELSE /\ fut'[c].res = Ok(ROk)
                     /\ front' = [WriterView EXCEPT ![cmd.key] =
                                     Some(Item(StringValue(cmd.value), expires_at,
                                               operation_id'))]]_vars

\* a SET IfNotExists with a ttl was turned down: the key keeps the value of
\* the earlier SET and nothing is scheduled
C23_Witness ==
    /\ fut["c1"].stage = "resolved"
    /\ fut["c1"].cmd.op = "Set"
    /\ fut["c1"].cmd.cond = "IfNotExists"
    /\ IsSome(fut["c1"].cmd.ttl)
    /\ fut["c1"].res = Ok(RNil)
    /\ IsSome(front[fut["c1"].cmd.key])
    /\ Unwrap(front[fut["c1"].cmd.key]).value.data # fut["c1"].cmd.value
    /\ timers = {}

\* the closures pending on a key that would remove it if they ran now
Live(map, tms, k) ==
    {t \in tms : t.key = k /\ ExpireCallback(map, k, t.operation_id).refresh}

\* C24: whenever the Writer handles an EXPIRE of a key that exists, the answer
\* is Integer(1), the key keeps its value, takes this operation's fresh id and
\* expiration now + d, and a callback for the key and the new id is scheduled
\* at now + d; of the callbacks pending on the key that one alone would still
\* remove it. On a missing key the answer is Integer(0), the store is unchanged
\* and nothing is scheduled.
C24_Expire ==
    [][(WriterOperation /\ Head(wbox).cmd.op = "Expire") =>
          LET cmd == Head(wbox).cmd
              c == Head(wbox).from
              k == cmd.key
              scheduled == Timer(k, operation_id', now + cmd.ttl)
          IN /\ fut'[c].stage = "resolved"
             /\ oplog' = <<>>
             /\ operation_id' = operation_id + 1
             /\ IF IsSome(WriterView[k])
                THEN /\ fut'[c].res = Ok(RInteger(1))
                     /\ front' = [WriterView EXCEPT ![k] =
                                     Some(Item(Unwrap(WriterView[k]).value,
                                               Some(now + cmd.ttl), operation_id'))]
                     /\ timers' = timers \cup {scheduled}
                     /\ scheduled \notin timers
                     /\ Live(front', timers', k) = {scheduled}
                ELSE /\ fut'[c].res = Ok(RInteger(0))
                     /\ front' = WriterView
                     /\ timers' = timers]_vars

\* an EXPIRE was answered Integer(1) for a key that a SET with a ttl had
\* written: the closure of the SET is still pending and no longer matches
C24_Witness ==
    /\ fut["c1"].stage = "resolved"
    /\ fut["c1"].cmd.op = "Expire"
    /\ fut["c1"].res = Ok(RInteger(1))
    /\ IsSome(front[fut["c1"].cmd.key])
    /\ IdOf(front, fut["c1"].cmd.key) = fut["c1"].id
    /\ \E t \in timers : /\ t.key = fut["c1"].cmd.key
                         /\ t.operation_id < fut["c1"].id
    /\ Cardinality(Live(front, timers, fut["c1"].cmd.key)) = 1

\* C25: whenever the Writer handles a PERSIST of a key that exists, the answer
\* is Integer(1), the key keeps its value, has no expiration and takes this
\* operation's fresh id, so that no callback pending on the key would remove
\* it; nothing is scheduled. On a missing key the answer is Integer(0) and the
\* store is unchanged.
C25_Persist ==
    [][(WriterOperation /\ Head(wbox).cmd.op = "Persist") =>
          LET cmd == Head(wbox).cmd
              c == Head(wbox).from
              k == cmd.key
          IN /\ fut'[c].stage = "resolved"
             /\ oplog' = <<>>
             /\ operation_id' = operation_id + 1
             /\ timers' = timers
             /\ IF IsSome(WriterView[k])
                THEN /\ fut'[c].res = Ok(RInteger(1))
                     /\ front' = [WriterView EXCEPT ![k] =
                                     Some(Item(Unwrap(WriterView[k]).value, None,
                                               operation_id'))]
                     /\ Live(front', timers', k) = {}
                ELSE /\ fut'[c].res = Ok(RInteger(0))
                     /\ front' = WriterView]_vars

\* a PERSIST was answered Integer(1) for a key whose closure is still pending
C25_Witness ==
    /\ fut["c1"].stage = "resolved"
    /\ fut["c1"].cmd.op = "Persist"
    /\ fut["c1"].res = Ok(RInteger(1))
    /\ IsSome(front[fut["c1"].cmd.key])
    /\ IdOf(front, fut["c1"].cmd.key) = fut["c1"].id
    /\ ~IsSome(ExpirationOf(front, fut["c1"].cmd.key))
    /\ \E t \in timers : t.key = fut["c1"].cmd.key

\* C26: whenever the Writer handles FLUSHALL or FLUSHDB, Sync or Async, the
\* answer is Ok and the store is empty afterwards, no callback pending would
\* remove anything, and a callback scheduled before the last flush changes
\* nothing when it runs, whatever was written since.
C26_Flush ==
    /\ [][(WriterOperation /\ Head(wbox).cmd.op \in {"FlushAll", "FlushDB"}) =>
             LET m == Head(wbox)
             IN /\ WriterHandle(m.cmd, operation_id', front, now).res = Ok(ROk)
                /\ m.from \in Conns =>
                      /\ fut'[m.from].stage = "resolved"
                      /\ fut'[m.from].res = Ok(ROk)
                /\ front' = EmptyMap
                /\ oplog' = <<>>
                /\ lastFlush' = operation_id'
                /\ \A t \in timers : t.operation_id < lastFlush'
                /\ \A k \in Keys : Live(front', timers', k) = {}]_vars
    /\ [][\A t \in timers :
             (TimerFire(t) /\ t.operation_id < lastFlush) =>
                 UNCHANGED <<front, oplog>>]_vars

\* a closure scheduled before a flush ran after it and removed nothing, although
\* its key had been set again after the flush
C26_Witness ==
    /\ IsSome(lastTimer)
    /\ Unwrap(lastTimer).operation_id < lastFlush
    /\ ~Unwrap(lastTimer).hit
    /\ IsSome(front[Unwrap(lastTimer).key])
    /\ IdOf(front, Unwrap(lastTimer).key) > lastFlush

---------------------------------------------------------------------------
(* Errors on a connection *)

\* two connections whose sockets take every response: a response future fails
\* only on an error of the storage actors or of their mailboxes
NextSinkSound ==
    \/ \E c \in Conns, cmd \in ConnCommands : ConnectionHandle(c, cmd)
    \/ \E c \in Conns : RequestSend(c)
    \/ WriterSubscribe
    \/ WriterOperation
    \/ ReaderOperation
    \/ \E c \in Conns : Respond(c)
    \/ \E c \in Conns : Fail(c)

SpecSinkSound == Init /\ [][NextSinkSound]_vars

\* the response future of the connection's last command ended in an error: the
\* sink it took is gone
Failed(c) == ~tx[c] /\ fut[c].stage = "none"

\* C27: when the response future of a command ends in a storage or mailbox
\* error, the connection writes no response for that command and handles no
\* further command: no command is handled on a connection whose earlier
\* command failed.
C27_ErrorEndsConnection ==
    [][\A c \in Conns :
          /\ Fail(c) => sink'[c] = sink[c]
          /\ \A cmd \in ConnCommands : ConnectionHandle(c, cmd) => ~Failed(c)]_vars

\* a StreamHandler that carries on after an error of its stream
errorContinues(err) == "Continue"

\* StreamHandler::error of Connection
error(err) == "Stop"

\* the stream of a connection is polled: not while the actor waits on a
\* response future, and only once the last item was handed to the handler
StreamPoll(c) ==
    /\ ~crashed
    /\ ~waiting(c)
    /\ ndec[c] = Len(out)
    /\ \/ \E n \in {1, Len(input)} : Receive(n)
       \/ Decode

\* the stream yields the command just decoded: StreamHandler::handle
StreamItem(c) ==
    /\ ndec[c] < Len(out)
    /\ ConnectionHandle(c, out[ndec[c] + 1])

\* the stream yields the DecodeError: StreamHandler::error decides whether the
\* actor stops or the stream is polled again on what the decoder left
StreamError(c) ==
    /\ ~crashed
    /\ cres = "Err"
    /\ cres' = IF error("DecodeError") = "Stop" THEN "Stopped" ELSE "read"
    /\ UNCHANGED <<input, buf, out, frames, suffix, sysvars>>

NextStream ==
    \/ StreamPoll("c1")
    \/ StreamItem("c1")
    \/ StreamError("c1")
    \/ RequestSend("c1")
    \/ WriterSubscribe
    \/ ReaderOperation
    \/ Respond("c1")

\* a PING with a message, as sent before the malformed bytes
Echo == Sent(<<PING, <<"a">>>>, PingCmd(Some(<<"a">>)))

\* the bare PING sent after the malformed bytes
Follower == Sent(<<PING>>, PingCmd(None))

\* a client sends PINGs with a message, then bytes that are no command, then a
\* bare PING
InitStream ==
    /\ ActorsInit
    /\ frames \in UNION {[1..n -> {Echo}] : n \in 0..MaxFrames}
    /\ suffix = <<>>
    /\ \E bad \in Malformed : input = Bytes(frames) \o bad.bytes \o Frame(Follower.args)
    /\ buf = <<>>
    /\ out = <<>>
    /\ cres = "None"

SpecStream == InitStream /\ [][NextStream]_vars

\* C28: when the command stream yields a DecodeError the Connection stops: from
\* then on nothing is decoded, handled or dispatched, and the command that
\* follows the malformed bytes never reaches the Reader, the Writer or a
\* response future.
C28_DecodeErrorStops ==
    /\ [][(cres = "Err" \/ cres = "Stopped") =>
             /\ cres' \in {"Err", "Stopped"}
             /\ cres = "Stopped" => cres' = "Stopped"
             /\ UNCHANGED <<out, ndec, rbox, fut, sink>>
             /\ Len(wbox') <= Len(wbox)]_vars
    /\ [](/\ out = CommandsOf(Take(frames, Len(out)))
          /\ \A i \in 1..Len(rbox) : rbox[i].cmd # Follower.cmd
          /\ \A i \in 1..Len(wbox) :
                wbox[i].kind = "Operation" => wbox[i].cmd # Follower.cmd
          /\ fut["c1"].stage # "none" => fut["c1"].cmd # Follower.cmd)

\* the connection answered the PING sent before the malformed bytes and
\* stopped on the error, with the PING that follows complete in its buffer
C28_Witness ==
    /\ cres = "Stopped"
    /\ Len(frames) = 1
    /\ sink["c1"] = <<1>>
    /\ input = <<>>
    /\ decode(buf).t = "Some"
    /\ decode(buf).value = Follower.cmd

---------------------------------------------------------------------------
(* Dispatch *)

\* the messages a mailbox holds for a connection
MessagesOf(box, c) == {i \in 1..Len(box) : box[i].kind = "Operation" /\ box[i].from = c}

\* C29: SET, DEL, EXPIRE, PERSIST, FLUSHALL and FLUSHDB are the writes, PING, GET
\* and EXISTS the reads, and the Async flushes alone are asynchronous; a command
\* a connection handles is sent once, to the Writer when it writes and to the
\* Reader when it reads: asynchronously by try_send within the handler,
\* otherwise by the one send of its request future; the Writer's mailbox never
\* holds a read nor the Reader's a write, and a connection never has two
\* requests in the mailboxes.
C29_Dispatch ==
    /\ [](\A cmd \in Commands :
            /\ writes(cmd) <=>
                  cmd.op \in {"Set", "Del", "Expire", "Persist", "FlushAll", "FlushDB"}
            /\ reads(cmd) <=> cmd.op \in {"Ping", "Get", "Exists"}
            /\ is_async(cmd) <=> cmd \in {FlushAllCmd("Async"), FlushDBCmd("Async")})
    /\ [](/\ \A i \in 1..Len(wbox) :
                wbox[i].kind = "Operation" =>
                    /\ writes(wbox[i].cmd)
                    /\ wbox[i].from = "none" <=> is_async(wbox[i].cmd)
          /\ \A i \in 1..Len(rbox) : reads(rbox[i].cmd) /\ rbox[i].from # "none"
          /\ \A c \in Conns :
                Cardinality(MessagesOf(wbox, c)) + Cardinality(MessagesOf(rbox, c)) <= 1)
    /\ [][\A c \in Conns :
             ndec'[c] # ndec[c] =>
                 /\ rbox' = rbox
                 /\ \/ wbox' = wbox
                    \/ /\ ~Full(wbox)
                       /\ \E cmd \in {FlushAllCmd("Async"), FlushDBCmd("Async")} :
                             wbox' = Append(wbox, Operation("none", cmd))
                 /\ tx[c] =>
                       IF is_async(fut'[c].cmd)
                       THEN /\ fut'[c].stage = "resolved"
                            /\ wbox' = IF Full(wbox) THEN wbox
                                       ELSE Append(wbox, Operation("none", fut'[c].cmd))
                       ELSE /\ fut'[c].stage = "request"
                            /\ wbox' = wbox]_vars
    /\ [][\A c \in Conns :
             RequestSend(c) =>
                 /\ fut'[c].stage = "pending"
                 /\ IF writes(fut[c].cmd)
                    THEN /\ wbox' = Append(wbox, Operation(c, fut[c].cmd))
                         /\ rbox' = rbox
                    ELSE /\ rbox' = Append(rbox, Operation(c, fut[c].cmd))
                         /\ wbox' = wbox]_vars

\* the Writer's mailbox holds an asynchronous flush, sent by try_send, and
\* behind it the EXPIRE the same connection sent next
C29_Witness ==
    /\ Len(wbox) = 2
    /\ wbox[1].kind = "Operation"
    /\ wbox[1].cmd = FlushDBCmd("Async")
    /\ wbox[1].from = "none"
    /\ wbox[2].cmd.op = "Expire"
    /\ wbox[2].from = "c1"
    /\ fut["c1"].stage = "pending"
    /\ sink["c1"] = <<1>>

---------------------------------------------------------------------------
(* The asynchronous flush *)

AsyncFlushes == {FlushAllCmd("Async"), FlushDBCmd("Async")}

\* one connection that flushes asynchronously, writes and reads
AsyncCommands ==
    AsyncFlushes
    \cup {SetCmd("k1", "v1", None, "Always"), DelCmd(<<"k1">>), GetCmd("k1")}

NextAsync == ActorStep({"c1"}, AsyncCommands)

\* the Writer's context takes the messages out of its mailbox one after another
SpecAsyncFair ==
    /\ Init
    /\ [][NextAsync]_vars
    /\ WF_vars(WriterSubscribe)
    /\ WF_vars(WriterOperation)

\* the asynchronous flushes waiting in the Writer's mailbox
PendingFlushes ==
    {i \in 1..Len(wbox) : wbox[i].kind = "Operation" /\ wbox[i].cmd \in AsyncFlushes}

\* C30: a Connection that handles an asynchronous flush while the Writer's
\* mailbox has room puts it there and has its Ok ready at once, the store being
\* as it was; a flush in the mailbox is eventually handled by the Writer; and
\* when the Writer handles a write a connection waits for, no flush is left
\* in the mailbox, so the flush was handled before every write submitted after
\* it.
C30_AsyncFlush ==
    /\ [][(/\ ndec'["c1"] # ndec["c1"]
           /\ tx["c1"]
           /\ fut'["c1"].cmd \in AsyncFlushes
           /\ ~Full(wbox)) =>
             /\ fut'["c1"].stage = "resolved"
             /\ fut'["c1"].res = Ok(ROk)
             /\ wbox' = Append(wbox, Operation("none", fut'["c1"].cmd))
             /\ UNCHANGED <<front, oplog, operation_id, lastFlush>>]_vars
    /\ \A i \in 0..MaxOpId : (PendingFlushes # {} /\ lastFlush = i) ~> (lastFlush > i)
    /\ [][(WriterOperation /\ Head(wbox).from \in Conns) => PendingFlushes = {}]_vars

\* the Ok of an asynchronous flush is on the wire while the flush waits in the
\* mailbox and the store still holds the key set before
C30_Witness ==
    /\ sink["c1"] = <<1, 2>>
    /\ PendingFlushes # {}
    /\ IsSome(front["k1"])
    /\ lastFlush = 0

---------------------------------------------------------------------------
(* Backpressure on the asynchronous flush *)

\* C31: whenever a Connection handles an asynchronous flush while the Writer's
\* mailbox is full, nothing enters the mailbox, the store is as it was and the
\* response future ends in the mailbox error; a future that ended in an error
\* writes nothing to the client, and no response is ever written for a command
\* whose future did not resolve to a response.
C31_Backpressure ==
    /\ [][\A c \in Conns :
             (/\ ndec'[c] # ndec[c]
              /\ tx[c]
              /\ fut'[c].cmd \in AsyncFlushes
              /\ Len(wbox) >= MailboxCap) =>
                 /\ wbox' = wbox
                 /\ fut'[c].stage = "resolved"
                 /\ fut'[c].res = Err("Full")
                 /\ UNCHANGED <<front, oplog, operation_id, lastFlush, sink>>]_vars
    /\ [][\A c \in Conns :
             (fut[c].stage = "resolved" /\ ~fut[c].res.ok) =>
                 /\ sink'[c] = sink[c]
                 /\ fut'[c].stage \in {"none", "resolved"}
                 /\ fut'[c].stage = "resolved" => fut'[c] = fut[c]]_vars
    /\ [][\A c \in Conns :
             sink'[c] # sink[c] =>
                 /\ fut[c].stage = "resolved"
                 /\ fut[c].res.ok
                 /\ sink'[c] = Append(sink[c], fut[c].idx)]_vars
    /\ [](Len(wbox) <= MailboxCap)

\* c2's asynchronous flush found the mailbox full and was dropped with a logged
\* error: nothing was written to c2, and the mailbox holds only c1's flush
C31_Witness ==
    /\ ndec["c2"] = 1
    /\ sink["c2"] = <<>>
    /\ fut["c2"].stage = "none"
    /\ ~tx["c2"]
    /\ Len(wbox) = MailboxCap
    /\ Cardinality(PendingFlushes) = 1
    /\ lastFlush = 0
    /\ ~crashed

---------------------------------------------------------------------------
(* Publication *)

\* C32: between two steps of the Writer no operation is pending on the
\* WriteHandle, so every read handle sees the Writer's own state; every write
\* operation the Writer handles ends with one publication, made at that
\* operation's id and before the response goes out, and a closure of
\* Writer::expire that removes its key publishes the removal before it returns.
C32_PublishedBeforeResponse ==
    /\ [](oplog = <<>> /\ front = WriterView /\ published <= operation_id)
    /\ [][WriterOperation =>
             LET m == Head(wbox)
                 e == WriterHandle(m.cmd, operation_id', front, now)
             IN /\ operation_id' = operation_id + 1
                /\ published' = operation_id'
                /\ front' = ApplyOps(front, e.ops)
                /\ m.from \in Conns =>
                      /\ fut'[m.from].stage = "resolved"
                      /\ fut'[m.from].id = published']_vars
    /\ [][\A t \in timers :
             TimerFire(t) =>
                 /\ front' = ApplyOps(front, ExpireCallback(front, t.key, t.operation_id).ops)
                 /\ front' # front => published' = operation_id
                 /\ front' = front => published' = published]_vars

\* a closure removed its key after a later write to another key was published
C32_Witness ==
    /\ IsSome(lastTimer)
    /\ Unwrap(lastTimer).hit
    /\ ~IsSome(front[Unwrap(lastTimer).key])
    /\ Unwrap(lastTimer).operation_id < operation_id
    /\ published = operation_id
    /\ \E k \in Keys : IsSome(front[k]) /\ IdOf(front, k) = operation_id
    /\ oplog = <<>>

---------------------------------------------------------------------------
(* The Reader's subscription *)

\* the Subscribe request of Reader::started ends in a MailboxError: map_err
\* turns it into (), the wait is over and Reader.store is still None
SubscribeFail ==
    /\ rwait
    /\ wbox # <<>>
    /\ Head(wbox).kind = "Subscribe"
    /\ wbox' = Tail(wbox)
    /\ rwait' = FALSE
    /\ UNCHANGED <<now, operation_id, front, oplog, timers, published, lastTimer,
                   lastFlush, rbox, rstore, tx, fut, ndec, sink, ackId, crashed,
                   codecvars>>

\* one connection that reads, while the Reader's subscription succeeds or fails
NextSubscription ==
    \/ \E cmd \in ReadCommands : ConnectionHandle("c1", cmd)
    \/ RequestSend("c1")
    \/ WriterSubscribe
    \/ SubscribeFail
    \/ ReaderOperation
    \/ Respond("c1")
    \/ SendError("c1")

SpecSubscription == Init /\ [][NextSubscription]_vars

\* C33: a Reader handles no Operation while it waits for its subscription, and
\* whenever a Reader without a read handle handles an Operation it answers the
\* error NoReadAccess and does not panic.
C33_ReaderRefuses ==
    /\ [][ReaderOperation => ~rwait]_vars
    /\ [][(ReaderOperation /\ ~rstore) =>
             LET c == Head(rbox).from
             IN /\ ~crashed'
                /\ fut'[c].stage = "resolved"
                /\ fut'[c].res = Err("NoReadAccess")]_vars

---------------------------------------------------------------------------
(* Operation ids in the store *)

\* C34: every item of the store carries an operation id that is at least 1 and
\* at most the Writer's counter, and no two keys carry the same operation id.
C34_StoredIds ==
    /\ \A k \in Keys :
          IsSome(front[k]) => (IdOf(front, k) >= 1 /\ IdOf(front, k) <= operation_id)
    /\ \A k, l \in Keys :
          (k # l /\ IsSome(front[k]) /\ IsSome(front[l])) => IdOf(front, k) # IdOf(front, l)

\* a closure removed k1, which was then set again after k2: both keys hold
\* items, the last operation's and an earlier one's
C34_Witness ==
    /\ IsSome(lastTimer)
    /\ Unwrap(lastTimer).hit
    /\ Unwrap(lastTimer).key = "k1"
    /\ IsSome(front["k1"])
    /\ IsSome(front["k2"])
    /\ IdOf(front, "k1") = operation_id
    /\ IdOf(front, "k2") < operation_id
    /\ IdOf(front, "k2") > Unwrap(lastTimer).operation_id

---------------------------------------------------------------------------
(* The sink of a connection *)

\* C35: whenever the handler of a Connection starts for a decoded command, the
\* sink tx is present, also after an earlier command of the connection ended in
\* an error.
C35_SinkAvailable ==
    [][\A c \in Conns : ndec'[c] # ndec[c] => tx[c]]_vars

====
